---- MODULE Spec2Model ----
(***************************************************************************)
(* Model of the PIR workflow client (React components + zustand store +    *)
(* Firestore repositories) and of the Cloud Functions notification         *)
(* triggers.  The Firestore "pirs" collection is the shared store; every   *)
(* browser session (client) holds its own cached copy, selectedPIR, from   *)
(* which the status buttons are rendered.                                  *)
(***************************************************************************)
EXTENDS Integers, Sequences, FiniteSets, TLC

\* ------------------------------------------------------------------ bounds
\* number of serverTimestamp() values the store hands out (one per write)
MaxClock == 6
\* number of events that may be waiting for their handler, per queue
MaxPending == 1
\* length of the longest id list handed to a fetch by ids
MaxIds == 12
\* number of ids registered with a PIR (arrayUnion writes)
MaxRegistrations == 3

\* the browser sessions, the PIR ids and the titles typed into the form
Clients == {"c1", "c2"}
PIRIds == {"p1"}
Titles == {"t0"}

\* the ids addDoc hands out to new questions, answers and attachments, in
\* the order of creation
QuestionIdSeq == <<"q1", "q2">>
AnswerIdSeq == <<"n1">>
AttachmentIdSeq == <<"t1", "t2">>
QuestionIds == {QuestionIdSeq[i] : i \in 1..Len(QuestionIdSeq)}
AnswerIds == {AnswerIdSeq[i] : i \in 1..Len(AnswerIdSeq)}
AttachmentIds == {AttachmentIdSeq[i] : i \in 1..Len(AttachmentIdSeq)}

\* ---------------------------------------------------------- enums (types)
ADMIN == "admin"
REQUESTER == "requester"
RESPONDER == "responder"
REVIEWER == "reviewer"
UserRole == {ADMIN, REQUESTER, RESPONDER, REVIEWER}

DRAFT == "draft"
REQUESTED == "requested"
SUBMITTED == "submitted"
REVIEWED == "reviewed"
ACCEPTED == "accepted"
REJECTED == "rejected"

PIRStatus == {DRAFT, REQUESTED, SUBMITTED, REVIEWED, ACCEPTED, REJECTED}

\* null / undefined object, an unset id or name, an unset timestamp
Null == [null |-> TRUE]
None == "none"
Unset == 0

\* the empty object literal {}
EmptyObj == [f \in {} |-> None]

\* ------------------------------------------------- the users collection
UserIdSeq == <<"a", "r1", "r2", "v1", "v2">>
UserIds == {UserIdSeq[i] : i \in 1..Len(UserIdSeq)}

users ==
  [u \in UserIds |->
     [id |-> u,
      email |-> u,
      displayName |-> u,
      role |-> CASE u = "a" -> ADMIN
                 [] u = "r1" -> REQUESTER
                 [] u = "r2" -> RESPONDER
                 [] OTHER -> REVIEWER]]

\* a user id that has no document in the users collection
NoDocUser == "u0"

\* the ids addDoc hands out to new tags, in the order of creation
TagIdSeq == <<"g1", "g2", "g3">>
TagIds == {TagIdSeq[i] : i \in 1..Len(TagIdSeq)}

\* ------------------------------------------------------------- variables
VARIABLES
  pirs,         \* Firestore collection 'pirs': id -> document data or Null
  clock,        \* last value handed out by serverTimestamp()
  currentUser,  \* per client: store.currentUser (User or Null)
  selectedPIR,  \* per client: store.selectedPIR (PIR with id, or Null)
  route,        \* per client: the page shown ("list", "detail" or "edit")
  formData,     \* per client: PIRForm edit-mode local state, or Null
  triggers,     \* pending onUpdate events of pirs/{pirId}: <<before, after>>
  lastCall,     \* the outcome of the last client operation
  lastNotify,   \* the outcome of the last run of onPIRStatusChange
  questionDocs,   \* Firestore collection 'questions': id -> data or Null
  answerDocs,     \* Firestore collection 'answers': id -> data or Null
  attachmentDocs, \* Firestore collection 'attachments': id -> data or Null
  blobs,          \* Firebase Storage: the download URLs of the stored files
  uploads,        \* number of uploads that reached the storage bucket
  questions,    \* per client: store.questions (the ids of the list)
  answers,      \* per client: store.answers (the ids of the list)
  attachments,  \* per client: store.attachments (the ids of the list)
  created,      \* pending onCreate events of questions/{id} and answers/{id}
  lastOp,       \* the outcome of the last question or attachment operation
  lastCreate,   \* the outcome of the last run of onNewQuestion / onNewAnswer
  tagDocs,      \* Firestore collection 'tags': id -> data or Null
  tags,         \* per client: store.tags (the ids of the list)
  userDocs,     \* Firestore collection 'users': uid -> data or Null
  auth,         \* per client: Firebase auth user, store.isAuthenticated, signUp /
                \* loadUserData / updateUserProfile under way, and the user
                \* data of a signUp that has completed
  answerFetches,  \* per client and question: the fetchAnswersByQuestionId call of
                  \* the question's item (state and the answers it returned)
  tagCalls        \* per client: the createTag call under way or returned

\* the lifecycle part of the state, the question/attachment part, and the
\* tags and the user documents
pirVars == <<pirs, clock, currentUser, selectedPIR, route, formData, triggers,
             lastCall, lastNotify>>
aggVars == <<questionDocs, answerDocs, attachmentDocs, blobs, uploads,
             questions, answers, attachments, created, lastOp, lastCreate>>
dirVars == <<tagDocs, tags, userDocs, auth, answerFetches, tagCalls>>
vars == <<pirVars, aggVars, dirVars>>

\* --------------------------------------------------------------- helpers
\* object spread {...a, ...b}: the keys of b override those of a
Spread(a, b) ==
  [f \in (DOMAIN a) \cup (DOMAIN b) |-> IF f \in DOMAIN b THEN b[f] ELSE a[f]]

\* updateDoc(ref, updates): the named fields are replaced, the others kept
updateDoc(data, updates) == Spread(data, updates)

\* { id, ...convertTimestampsToDates(data) }
WithId(id, data) == Spread([id |-> id], data)

\* the elements of a list
Range(seq) == {seq[i] : i \in 1..Len(seq)}


\* -------------------------------------------------- the PIR repository
\* getPIRById: { id, ...data } or null
getPIRById(id) == IF pirs[id] # Null THEN WithId(id, pirs[id]) ELSE Null

\* createPIR: the document written by addDoc for the object built by the form
NewPIRData(user, title, ts) ==
  [title |-> title,
   status |-> DRAFT,
   requesterId |-> user.id,
   requesterName |-> user.displayName,
   assignedResponderId |-> None,
   assignedResponderName |-> None,
   reviewerId |-> None,
   reviewerName |-> None,
   questionIds |-> <<>>,
   attachmentIds |-> <<>>,
   createdAt |-> ts,
   updatedAt |-> ts,
   submittedAt |-> Unset,
   reviewedAt |-> Unset,
   acceptedAt |-> Unset,
   rejectedAt |-> Unset]

\* a switch that also stamps submittedAt when the PIR is requested
StatusTimestampOnRequest(status, ts) ==
  CASE status \in {REQUESTED, SUBMITTED} -> [submittedAt |-> ts]
    [] status = REVIEWED -> [reviewedAt |-> ts]
    [] status = ACCEPTED -> [acceptedAt |-> ts]
    [] status = REJECTED -> [rejectedAt |-> ts]
    [] OTHER -> EmptyObj

\* updatePIRStatus, the switch: the status-specific timestamp
StatusTimestamp(status, ts) ==
  CASE status = SUBMITTED -> [submittedAt |-> ts]
    [] status = REVIEWED -> [reviewedAt |-> ts]
    [] status = ACCEPTED -> [acceptedAt |-> ts]
    [] status = REJECTED -> [rejectedAt |-> ts]
    [] OTHER -> EmptyObj

\* updatePIRStatus: the updates object handed to updateDoc
StatusUpdates(status, additionalData, ts) ==
  Spread(Spread([status |-> status, updatedAt |-> ts], additionalData),
         StatusTimestamp(status, ts))

\* an updates object that also blanks the requester's name
PIRUpdatesClearingRequester(updates, ts) ==
  Spread(updates, [updatedAt |-> ts, requesterName |-> None])

\* updatePIR: the updates object handed to updateDoc
PIRUpdates(updates, ts) == Spread(updates, [updatedAt |-> ts])

\* a committed updateDoc on pirs/{id}: the write, the server clock, and the
\* onUpdate event Firestore raises for it (delivered once, in order)
WritePIR(id, updates) ==
  LET after == updateDoc(pirs[id], updates)
  IN  /\ Len(triggers) < MaxPending
      /\ pirs' = [pirs EXCEPT ![id] = after]
      /\ clock' = clock + 1
      /\ triggers' = Append(triggers, [pirId |-> id, before |-> pirs[id], after |-> after])

\* ------------------------------------------------ PIRDetail permissions
\* an edit permission that forgets the Draft condition of the requester
canEditAnyStatus(user, pir) ==
  /\ user # Null
  /\ \/ user.role = ADMIN
     \/ user.id = pir.requesterId

canEdit(user, pir) ==
  /\ user # Null
  /\ \/ user.role = ADMIN
     \/ (user.id = pir.requesterId /\ pir.status = DRAFT)

canRequest(user, pir) ==
  /\ user # Null
  /\ pir.status = DRAFT
  /\ (user.role = ADMIN \/ user.id = pir.requesterId)

canSubmit(user, pir) ==
  /\ user # Null
  /\ pir.status = REQUESTED
  /\ (user.role = ADMIN \/ user.id = pir.assignedResponderId)

canReview(user, pir) ==
  /\ user # Null
  /\ pir.status = SUBMITTED
  /\ (user.role = ADMIN \/ user.role = REVIEWER)

canAcceptReject(user, pir) ==
  /\ user # Null
  /\ pir.status = REVIEWED
  /\ (user.role = ADMIN \/ user.id = pir.reviewerId)

\* the action buttons PIRDetail renders: which status each one requests
ButtonShown(user, pir, newStatus) ==
  CASE newStatus = REQUESTED -> canRequest(user, pir)
    [] newStatus = SUBMITTED -> canSubmit(user, pir)
    [] newStatus = REVIEWED -> canReview(user, pir)
    [] newStatus \in {ACCEPTED, REJECTED} -> canAcceptReject(user, pir)
    [] OTHER -> FALSE


\* the actions the detail page offers a user on a PIR
resolveActions(user, pir) ==
  {a \in {"Edit", "Request", "Submit", "Review", "AcceptReject"} :
     CASE a = "Edit" -> canEdit(user, pir)
       [] a = "Request" -> canRequest(user, pir)
       [] a = "Submit" -> canSubmit(user, pir)
       [] a = "Review" -> canReview(user, pir)
       [] OTHER -> canAcceptReject(user, pir)}

\* no tags yet, the user documents as written at sign-up, and no sign-up
\* or loadUserData under way
InitialDirectories ==
  /\ tagDocs = [g \in TagIds |-> Null]
  /\ tags = [c \in Clients |-> <<>>]
  /\ userDocs = [u \in UserIds \cup {NoDocUser} |->
                   IF u \in UserIds THEN users[u] ELSE Null]
  /\ auth = [c \in Clients |-> [uid |-> None, signUp |-> Null, load |-> "idle", signedUp |-> Null,
                               isAuthenticated |-> FALSE, profile |-> Null]]
  /\ answerFetches = [c \in Clients |-> [q \in QuestionIds |->
                                          [state |-> "none", result |-> <<>>]]]
  /\ tagCalls = [c \in Clients |-> Null]

\* no question, answer or attachment yet, and empty lists in every session
EmptyAggregate ==
  /\ questionDocs = [q \in QuestionIds |-> Null]
  /\ answerDocs = [n \in AnswerIds |-> Null]
  /\ attachmentDocs = [t \in AttachmentIds |-> Null]
  /\ blobs = {}
  /\ uploads = 0
  /\ questions = [c \in Clients |-> <<>>]
  /\ answers = [c \in Clients |-> <<>>]
  /\ attachments = [c \in Clients |-> <<>>]
  /\ created = <<>>
  /\ lastOp = [op |-> "none"]
  /\ lastCreate = [ran |-> FALSE]

\* ------------------------------------------------------------ the state
Init ==
  /\ pirs = [id \in PIRIds |-> Null]
  /\ clock = 0
  /\ currentUser = [c \in Clients |-> Null]
  /\ selectedPIR = [c \in Clients |-> Null]
  /\ route = [c \in Clients |-> "list"]
  /\ formData = [c \in Clients |-> Null]
  /\ triggers = <<>>
  /\ lastCall = [op |-> "none"]
  /\ lastNotify = [ran |-> FALSE]
  /\ EmptyAggregate
  /\ InitialDirectories

\* the record kept of a client operation on a PIR
Call(op, c, id, status, additionalData, after, outcome) ==
  [op |-> op, client |-> c, user |-> currentUser[c], pirId |-> id,
   status |-> status, additionalData |-> additionalData,
   before |-> pirs[id], after |-> after, outcome |-> outcome]

\* ------------------------------------------------------------ userSlice
\* signIn, then the auth listener's loadUserData of an existing user document
signIn(c, u) ==
  /\ currentUser[c] = Null
  /\ currentUser' = [currentUser EXCEPT ![c] = users[u]]
  /\ route' = [route EXCEPT ![c] = "list"]
  /\ formData' = [formData EXCEPT ![c] = Null]
  /\ UNCHANGED <<pirs, clock, selectedPIR, triggers, lastCall, lastNotify>>

\* ------------------------------------------------------------- pirSlice
\* fetchPIRById, run by the mount effect of PIRDetail
fetchPIRById(c, id) ==
  /\ selectedPIR' = [selectedPIR EXCEPT ![c] = getPIRById(id)]
  /\ route' = [route EXCEPT ![c] = "detail"]
  /\ formData' = [formData EXCEPT ![c] = Null]
  /\ UNCHANGED <<pirs, clock, currentUser, triggers, lastCall, lastNotify>>

\* a snapshot that always claims to hold a document
existsAlways(snapshot) == TRUE

\* currentDoc.exists() of the snapshot getDoc returned
exists(snapshot) == snapshot # Null

\* updatePIRStatus of the slice around updatePIRStatus of the repository
updatePIRStatus(c, id, status, additionalData) ==
  IF ~exists(pirs[id])
  THEN \* `PIR with ID ... not found`: nothing is written, the slice rethrows
       /\ lastCall' = Call("updatePIRStatus", c, id, status, additionalData,
                            Null, "NotFound")
       /\ UNCHANGED <<pirs, clock, triggers, selectedPIR>>
  ELSE LET updates == StatusUpdates(status, additionalData, clock + 1)
           updatedPIR == WithId(id, updateDoc(pirs[id], updates))
       IN  /\ WritePIR(id, updates)
           /\ selectedPIR' = [selectedPIR EXCEPT ![c] =
                                IF @ # Null /\ @.id = id THEN updatedPIR ELSE @]
           /\ lastCall' = Call("updatePIRStatus", c, id, status, additionalData,
                                updateDoc(pirs[id], updates), "ok")

\* updatePIR of the slice around updatePIR of the repository
updatePIR(c, id, updates) ==
  IF ~exists(pirs[id])
  THEN /\ lastCall' = Call("updatePIR", c, id, None, updates, Null, "NotFound")
       /\ UNCHANGED <<pirs, clock, triggers, selectedPIR>>
  ELSE LET upd == PIRUpdates(updates, clock + 1)
           updatedPIR == WithId(id, updateDoc(pirs[id], upd))
       IN  /\ WritePIR(id, upd)
           /\ selectedPIR' = [selectedPIR EXCEPT ![c] =
                                IF @ # Null /\ @.id = id THEN updatedPIR ELSE @]
           /\ lastCall' = Call("updatePIR", c, id, None, updates,
                                updateDoc(pirs[id], upd), "ok")


\* ------------------------------------------------------------ PIRDetail
\* a switch that adds no reviewer for the Reviewed status
StatusAdditionalDataEmpty(user, newStatus) == EmptyObj

\* handleStatusChange, the switch: the user data added for the new status
StatusAdditionalData(user, newStatus) ==
  IF newStatus = REVIEWED
  THEN [reviewerId |-> user.id, reviewerName |-> user.displayName]
  ELSE EmptyObj

\* a switch that refuses nobody
AcceptRejectNeverRefused(user, pir, newStatus) == FALSE

\* handleStatusChange, the switch: 'You do not have permission to
\* accept/reject this PIR', decided on the client's copy of the PIR
AcceptRejectRefused(user, pir, newStatus) ==
  /\ newStatus \in {ACCEPTED, REJECTED}
  /\ user.role # ADMIN
  /\ pir.reviewerId # user.id

handleStatusChange(c, newStatus) ==
  /\ selectedPIR[c] # Null
  /\ currentUser[c] # Null
  /\ LET id == selectedPIR[c].id
         additionalData == StatusAdditionalData(currentUser[c], newStatus)
     IN  IF AcceptRejectRefused(currentUser[c], selectedPIR[c], newStatus)
         THEN /\ lastCall' = Call("updatePIRStatus", c, id, newStatus,
                                   additionalData, pirs[id], "PermissionDenied")
              /\ UNCHANGED <<pirs, clock, triggers, selectedPIR>>
         ELSE updatePIRStatus(c, id, newStatus, additionalData)
  /\ UNCHANGED <<currentUser, route, formData, lastNotify>>

\* a click on one of the action buttons of the PIR detail page
clickStatusButton(c, newStatus) ==
  /\ route[c] = "detail"
  /\ selectedPIR[c] # Null
  /\ ButtonShown(currentUser[c], selectedPIR[c], newStatus)
  /\ clock < MaxClock
  /\ handleStatusChange(c, newStatus)

\* handleEdit: the Edit button opens PIRForm in edit mode, whose mount effect
\* fetches the PIR and loads the form from it
FormDataOf(pir) ==
  [title |-> pir.title, status |-> pir.status,
   questionIds |-> pir.questionIds, attachmentIds |-> pir.attachmentIds]

handleEdit(c) ==
  /\ route[c] = "detail"
  /\ selectedPIR[c] # Null
  /\ canEdit(currentUser[c], selectedPIR[c])
  /\ LET pir == getPIRById(selectedPIR[c].id)
     IN  /\ selectedPIR' = [selectedPIR EXCEPT ![c] = pir]
         /\ formData' = [formData EXCEPT ![c] =
                           IF pir = Null THEN Null ELSE FormDataOf(pir)]
  /\ route' = [route EXCEPT ![c] = "edit"]
  /\ UNCHANGED <<pirs, clock, currentUser, triggers, lastCall, lastNotify>>

\* -------------------------------------------------------------- PIRForm
\* handleSubmit in create mode: createPIR, then the detail page of the new PIR
createPIR(c, id, title) ==
  /\ currentUser[c] # Null
  /\ pirs[id] = Null
  /\ clock < MaxClock
  /\ LET data == NewPIRData(currentUser[c], title, clock + 1)
     IN  /\ pirs' = [pirs EXCEPT ![id] = data]
         /\ selectedPIR' = [selectedPIR EXCEPT ![c] = WithId(id, data)]
         /\ lastCall' = Call("createPIR", c, id, DRAFT, EmptyObj, data, "ok")
  /\ clock' = clock + 1
  /\ route' = [route EXCEPT ![c] = "detail"]
  /\ formData' = [formData EXCEPT ![c] = Null]
  /\ UNCHANGED <<currentUser, triggers, lastNotify>>

\* handleSubmit in edit mode: the whole form, status included, is sent
submitEdit(c, title) ==
  /\ route[c] = "edit"
  /\ currentUser[c] # Null
  /\ selectedPIR[c] # Null
  /\ formData[c] # Null
  /\ canEdit(currentUser[c], selectedPIR[c])
  /\ clock < MaxClock
  /\ updatePIR(c, selectedPIR[c].id, Spread(formData[c], [title |-> title]))
  /\ route' = [route EXCEPT ![c] = "detail"]
  /\ formData' = [formData EXCEPT ![c] = Null]
  /\ UNCHANGED <<currentUser, lastNotify>>

\* the assignment of a responder by an administrator, before submission
assignResponder(c, r) ==
  /\ route[c] = "detail"
  /\ currentUser[c] # Null
  /\ selectedPIR[c] # Null
  /\ currentUser[c].role = ADMIN
  /\ selectedPIR[c].status \in {DRAFT, REQUESTED}
  /\ users[r].role = RESPONDER
  /\ clock < MaxClock
  /\ updatePIR(c, selectedPIR[c].id,
               [assignedResponderId |-> r,
                assignedResponderName |-> users[r].displayName])
  /\ UNCHANGED <<currentUser, route, formData, lastNotify>>


\* ------------------------------------------- functions: onPIRStatusChange
\* db.collection('users').doc(id).get().data(): undefined when there is none
UserData(uid) == IF uid \in DOMAIN users THEN users[uid] ELSE Null

\* x?.email
EmailOf(user) == IF user = Null THEN None ELSE user.email

\* a filter that keeps the undefined entries
FilterNothing(emails) == emails

\* .filter(Boolean)
FilterBoolean(emails) == SelectSeq(emails, LAMBDA e : e # None)

\* the users query where('role', '==', 'admin'), mapped to the emails
adminEmails ==
  LET admins == SelectSeq(UserIdSeq, LAMBDA u : users[u].role = ADMIN)
  IN  [i \in 1..Len(admins) |-> users[admins[i]].email]

requesterOf(afterData) == UserData(afterData.requesterId)

\* a handler that never looks the responder up
responderOfNobody(afterData) == Null

responderOf(afterData) ==
  IF afterData.assignedResponderId # None
  THEN UserData(afterData.assignedResponderId) ELSE Null

\* a handler that takes the requester for the reviewer
reviewerOfRequester(afterData) == UserData(afterData.requesterId)

reviewerOf(afterData) ==
  IF afterData.reviewerId # None THEN UserData(afterData.reviewerId) ELSE Null

\* the switch on afterData.status: whether sendPIRStatusUpdateEmail is called
Dispatches(afterData) ==
  CASE afterData.status = REQUESTED -> TRUE
    [] afterData.status = SUBMITTED -> reviewerOf(afterData) # Null
    [] afterData.status \in {REVIEWED, ACCEPTED, REJECTED} -> TRUE
    [] OTHER -> FALSE

\* the switch on afterData.status: the toEmails of the call
toEmails(afterData) ==
  LET requester == requesterOf(afterData)
      responder == responderOf(afterData)
      reviewer == reviewerOf(afterData)
  IN  CASE afterData.status = REQUESTED ->
             IF responder # Null THEN <<responder.email>> \o adminEmails
                                 ELSE adminEmails
        [] afterData.status = SUBMITTED ->
             FilterBoolean(<<EmailOf(reviewer), EmailOf(requester)>> \o adminEmails)
        [] afterData.status \in {REVIEWED, ACCEPTED, REJECTED} ->
             FilterBoolean(<<EmailOf(requester), EmailOf(responder)>>)
        [] OTHER -> <<>>

\* a handler that never skips
StatusNeverUnchanged(beforeData, afterData) == FALSE

\* 'Skip if status hasn't changed'
StatusUnchanged(beforeData, afterData) == beforeData.status = afterData.status

\* sendPIRStatusUpdateEmail: "skipped" without recipients, else sgMail.send
sendPIRStatusUpdateEmail(emails, sendFails) ==
  IF Len(emails) = 0 THEN "skipped"
  ELSE IF sendFails THEN "thrown" ELSE "sent"

\* one run of the handler, for the oldest pending onUpdate event
onPIRStatusChange(lookupFails, sendFails) ==
  /\ triggers # <<>>
  /\ LET ev == Head(triggers)
         run == [ran |-> TRUE, pirId |-> ev.pirId,
                 beforeStatus |-> ev.before.status,
                 afterStatus |-> ev.after.status,
                 requesterId |-> ev.after.requesterId,
                 responderId |-> ev.after.assignedResponderId,
                 reviewerId |-> ev.after.reviewerId]
     IN  lastNotify' =
           IF StatusUnchanged(ev.before, ev.after)
           THEN Spread(run, [lookups |-> "none", invoked |-> 0,
                             send |-> "none", outcome |-> "null"])
           ELSE IF lookupFails
           THEN \* an awaited read before the try block rejects
                Spread(run, [lookups |-> "failed", invoked |-> 0,
                             send |-> "none", outcome |-> "thrown"])
           ELSE IF ~Dispatches(ev.after)
           THEN Spread(run, [lookups |-> "ok", invoked |-> 0,
                             send |-> "none", outcome |-> "null"])
           ELSE Spread(run, [lookups |-> "ok", invoked |-> 1,
                             toEmails |-> toEmails(ev.after),
                             send |-> sendPIRStatusUpdateEmail(toEmails(ev.after), sendFails),
                             outcome |-> "null"])
  /\ triggers' = Tail(triggers)
  /\ UNCHANGED <<pirs, clock, currentUser, selectedPIR, route, formData, lastCall>>

\* ------------------------------------- questions, answers, attachments
\* arrayUnion(x) applied to a stored array
arrayUnion(list, x) == IF x \in Range(list) THEN list ELSE Append(list, x)

\* the ids of the documents a collection holds
Existing(docs) == {i \in DOMAIN docs : docs[i] # Null}

\* addDoc on a collection without deletions: whether an id is left, and the
\* id of the new document
HasFreshId(idSeq, docs) == Cardinality(Existing(docs)) < Len(idSeq)
NextId(idSeq, docs) == idSeq[Cardinality(Existing(docs)) + 1]

\* QuestionAnswerList.handleSubmit: createQuestion of the slice around
\* createQuestion of the repository; Firestore raises the onCreate event
createQuestion(c) ==
  /\ route[c] = "detail"
  /\ currentUser[c] # Null
  /\ selectedPIR[c] # Null
  /\ canEdit(currentUser[c], selectedPIR[c])
  /\ HasFreshId(QuestionIdSeq, questionDocs)
  /\ Len(created) < MaxPending
  /\ LET id == NextId(QuestionIdSeq, questionDocs)
         data == [pirId |-> selectedPIR[c].id,
                  createdBy |-> currentUser[c].id,
                  attachmentIds |-> <<>>]
     IN  /\ questionDocs' = [questionDocs EXCEPT ![id] = data]
         /\ questions' = [questions EXCEPT ![c] = Append(@, id)]
         /\ created' = Append(created, [kind |-> "question", id |-> id, data |-> data])
         /\ lastOp' = [op |-> "createQuestion", pirId |-> data.pirId, id |-> id,
                       outcome |-> "ok"]
  /\ UNCHANGED <<pirVars, dirVars, answerDocs, attachmentDocs, blobs, uploads, answers,
                 attachments, lastCreate>>

\* createAnswer of the slice around createAnswer of the repository
createAnswer(c, pirId, questionId) ==
  /\ currentUser[c] # Null
  /\ HasFreshId(AnswerIdSeq, answerDocs)
  /\ Len(created) < MaxPending
  /\ LET id == NextId(AnswerIdSeq, answerDocs)
         data == [pirId |-> pirId, questionId |-> questionId,
                  responderId |-> currentUser[c].id,
                  attachmentIds |-> <<>>]
     IN  /\ answerDocs' = [answerDocs EXCEPT ![id] = data]
         /\ answers' = [answers EXCEPT ![c] = <<id>> \o @]
         /\ created' = Append(created, [kind |-> "answer", id |-> id, data |-> data])
         /\ lastOp' = [op |-> "createAnswer", pirId |-> pirId, id |-> id,
                       outcome |-> "ok"]
  /\ UNCHANGED <<pirVars, dirVars, questionDocs, attachmentDocs, blobs, uploads, questions,
                 attachments, lastCreate>>

\* the download URLs of the files, in the order of upload
BlobUrlSeq == <<"b1", "b2">>

\* an upload that writes the metadata record whatever the storage answered
UploadAlwaysCreatesRecord(blobFails, urlFails) == TRUE

\* uploadAttachment of the repository: addDoc is reached only after
\* uploadBytes and getDownloadURL have both resolved, and may itself be
\* rejected
UploadCreatesRecord(blobFails, urlFails) == ~blobFails /\ ~urlFails

\* AttachmentSection.handleUpload: uploadAttachment of the slice around
\* uploadAttachment of the repository
uploadAttachment(c, blobFails, urlFails, addDocFails) ==
  /\ route[c] = "detail"
  /\ currentUser[c] # Null
  /\ selectedPIR[c] # Null
  /\ canEdit(currentUser[c], selectedPIR[c])
  /\ uploads < Len(AttachmentIdSeq)
  /\ LET id == AttachmentIdSeq[uploads + 1]
         url == BlobUrlSeq[uploads + 1]
         data == [parentId |-> selectedPIR[c].id,
                  parentType |-> "pir",
                  uploadedBy |-> currentUser[c].id,
                  downloadUrl |-> url]
         recorded == UploadCreatesRecord(blobFails, urlFails) /\ ~addDocFails
     IN  /\ blobs' = IF blobFails THEN blobs ELSE blobs \cup {url}
         /\ uploads' = IF blobFails THEN uploads ELSE uploads + 1
         /\ attachmentDocs' = IF recorded THEN [attachmentDocs EXCEPT ![id] = data]
                                          ELSE attachmentDocs
         /\ attachments' = IF recorded THEN [attachments EXCEPT ![c] = Append(@, id)]
                                       ELSE attachments
         /\ lastOp' = [op |-> "uploadAttachment", id |-> id,
                       blobWritten |-> ~blobFails,
                       urlResolved |-> ~blobFails /\ ~urlFails,
                       outcome |-> IF blobFails \/ urlFails \/ addDocFails THEN "thrown"
                                   ELSE "ok"]
  /\ UNCHANGED <<pirVars, dirVars, questionDocs, answerDocs, questions, answers, created,
                 lastCreate>>

\* a delete that gives up when the file cannot be deleted
storageErrorRethrown(storageFails) == ~storageFails

\* the inner try around deleteObject: its catch only warns, and the
\* function goes on to deleteDoc
storageErrorSwallowed(storageFails) == TRUE

\* deleteAttachment of the slice around deleteAttachment of the repository
deleteAttachment(c, id, storageFails) ==
  /\ IF attachmentDocs[id] = Null \/ ~storageErrorSwallowed(storageFails)
     THEN \* `Attachment with ID ... not found`: the slice rethrows
          /\ lastOp' = [op |-> "deleteAttachment", id |-> id, outcome |-> "thrown"]
          /\ UNCHANGED <<attachmentDocs, blobs, attachments>>
     ELSE /\ blobs' = IF storageFails THEN blobs
                      ELSE blobs \ {attachmentDocs[id].downloadUrl}
          /\ attachmentDocs' = [attachmentDocs EXCEPT ![id] = Null]
          /\ attachments' = [attachments EXCEPT ![c] = SelectSeq(@, LAMBDA a : a # id)]
          /\ lastOp' = [op |-> "deleteAttachment", id |-> id, outcome |-> "ok"]
  /\ UNCHANGED <<pirVars, dirVars, questionDocs, answerDocs, uploads, questions, answers,
                 created, lastCreate>>

\* addQuestionToPIR / addAttachmentToPIR of the PIR repository: updateDoc
\* with arrayUnion on the named array field, and updatedAt
addToPIR(op, field, pirId, id) ==
  /\ clock < MaxClock
  /\ IF pirs[pirId] = Null
     THEN \* updateDoc on a missing document rejects
          /\ lastOp' = [op |-> op, pirId |-> pirId, id |-> id, outcome |-> "thrown"]
          /\ UNCHANGED <<pirs, clock, triggers>>
     ELSE LET after == arrayUnion(pirs[pirId][field], id)
          IN  /\ WritePIR(pirId, [f \in {field, "updatedAt"} |->
                                    IF f = field THEN after ELSE clock + 1])
              /\ lastOp' = [op |-> op, pirId |-> pirId, id |-> id, outcome |-> "ok"]
  /\ UNCHANGED <<dirVars, currentUser, selectedPIR, route, formData, lastCall,
                 lastNotify, questionDocs, answerDocs, attachmentDocs, blobs, uploads,
                 questions, answers, attachments, created, lastCreate>>

addQuestionToPIR(pirId, questionId) ==
  addToPIR("addQuestionToPIR", "questionIds", pirId, questionId)

addAttachmentToPIR(pirId, attachmentId) ==
  addToPIR("addAttachmentToPIR", "attachmentIds", pirId, attachmentId)

\* getQuestionsByPIRId: where('pirId', '==', pirId), orderBy('createdAt', 'asc')
getQuestionsByPIRId(pirId) ==
  SelectSeq(QuestionIdSeq,
            LAMBDA q : questionDocs[q] # Null /\ questionDocs[q].pirId = pirId)

\* the mount effect of QuestionAnswerList: fetchQuestionsByPIRId of the slice
fetchQuestionsByPIRId(c) ==
  /\ route[c] = "detail"
  /\ selectedPIR[c] # Null
  /\ questions' = [questions EXCEPT ![c] = getQuestionsByPIRId(selectedPIR[c].id)]
  /\ lastOp' = [op |-> "fetchQuestionsByPIRId", pirId |-> selectedPIR[c].id,
                outcome |-> "ok"]
  /\ UNCHANGED <<pirVars, dirVars, questionDocs, answerDocs, attachmentDocs, blobs, uploads,
                 answers, attachments, created, lastCreate>>

\* ------------------------------------------------ the fetches by id list
\* 'Firebase doesn't support "in" queries with more than 10 items'
batchSize == 10

Min(a, b) == IF a < b THEN a ELSE b

\* the loop `for (i = 0; i < ids.length; i += batchSize)` with
\* ids.slice(i, i + batchSize)
Batches(ids) ==
  [k \in 1..((Len(ids) + batchSize - 1) \div batchSize) |->
     SubSeq(ids, (k - 1) * batchSize + 1, Min(k * batchSize, Len(ids)))]

\* the expression doc.id at module level: `doc` is the function imported
\* from firebase/firestore, which has no property id
docId == None

\* query(collection, where(fieldPath, 'in', batch)) and getDocs: where()
\* rejects a field path that is neither a string nor a FieldPath
whereIn(fieldPath, batch, docs) ==
  IF fieldPath = None
  THEN [outcome |-> "thrown", ids |-> <<>>]
  ELSE [outcome |-> "ok",
        ids |-> SelectSeq(batch, LAMBDA i : i \in DOMAIN docs /\ docs[i] # Null)]

\* the loop `for (const batch of batches)`: the batches are queried one
\* after the other, and the first rejection ends the loop
RECURSIVE RunBatches(_, _, _, _)
RunBatches(batches, k, docs, acc) ==
  IF k > Len(batches) THEN acc
  ELSE LET r == whereIn(docId, batches[k], docs)
       IN  IF r.outcome = "thrown"
           THEN [outcome |-> "thrown", result |-> <<>>, requests |-> acc.requests]
           ELSE RunBatches(batches, k + 1, docs,
                           [outcome |-> "ok", result |-> acc.result \o r.ids,
                            requests |-> acc.requests + 1])

\* getAttachmentsByIds / getQuestionsByIds over their collection
getByIds(ids, docs) ==
  IF Len(ids) = 0
  THEN [outcome |-> "ok", result |-> <<>>, requests |-> 0]
  ELSE RunBatches(Batches(ids), 1, docs,
                  [outcome |-> "ok", result |-> <<>>, requests |-> 0])

getAttachmentsByIds(ids) == getByIds(ids, attachmentDocs)

getQuestionsByIds(ids) == getByIds(ids, questionDocs)

\* the id lists handed to fetchAttachmentsByIds: the attachmentIds of the PIR
\* shown, and lists of up to MaxIds ids (the stored ones first): the empty
\* one, one id, a full batch, and the longest
IdPool ==
  AttachmentIdSeq \o <<"x1", "x2", "x3", "x4", "x5", "x6", "x7", "x8", "x9",
                       "x10", "x11", "x12">>

FetchLengths == {0, 1, batchSize, MaxIds}

FetchInputs(c) ==
  {SubSeq(IdPool, 1, n) : n \in FetchLengths}
    \cup (IF selectedPIR[c] # Null THEN {selectedPIR[c].attachmentIds} ELSE {})

\* fetchAttachmentsByIds of the slice around getAttachmentsByIds
fetchAttachmentsByIds(c, ids) ==
  /\ ids \in FetchInputs(c)
  /\ LET r == getAttachmentsByIds(ids)
     IN  /\ attachments' =
               IF Len(ids) = 0 THEN [attachments EXCEPT ![c] = <<>>]
               ELSE IF r.outcome = "ok" THEN [attachments EXCEPT ![c] = r.result]
               ELSE \* the slice keeps the list and sets attachmentError
                    attachments
         /\ lastOp' = [op |-> "fetchAttachmentsByIds", ids |-> ids,
                       requests |-> r.requests,
                       outcome |-> r.outcome]
  /\ UNCHANGED <<pirVars, dirVars, questionDocs, answerDocs, attachmentDocs, blobs, uploads,
                 questions, answers, created, lastCreate>>

\* ------------------------------- functions: onNewQuestion, onNewAnswer
\* a handler that writes to the requester
questionRecipientRequester(pirData) == EmailOf(UserData(pirData.requesterId))

\* onNewQuestion: responderEmail, undefined unless a responder is assigned
\* and has a user document
questionRecipient(pirData) ==
  IF pirData.assignedResponderId # None
  THEN EmailOf(UserData(pirData.assignedResponderId)) ELSE None

\* onNewAnswer: requester?.email
answerRecipient(pirData) == EmailOf(UserData(pirData.requesterId))

\* sendNewQuestionEmail / sendNewAnswerEmail: sgMail.send, rethrown on error
sendNewEmail(sendFails) == IF sendFails THEN "thrown" ELSE "sent"

\* one run of onNewQuestion, for the oldest pending onCreate event; every
\* read and the send are inside the try block, whose catch returns null
onNewQuestion(readFails, sendFails) ==
  /\ created # <<>>
  /\ Head(created).kind = "question"
  /\ LET ev == Head(created)
         pirData == pirs[ev.data.pirId]
         run == [ran |-> TRUE, kind |-> "question", id |-> ev.id,
                 pirId |-> ev.data.pirId, outcome |-> "null"]
     IN  lastCreate' =
           IF readFails
           THEN Spread(run, [reads |-> "failed", invoked |-> 0, send |-> "none"])
           ELSE IF pirData = Null
           THEN Spread(run, [reads |-> "ok", pirFound |-> FALSE,
                             invoked |-> 0, send |-> "none"])
           ELSE IF questionRecipient(pirData) = None
           THEN Spread(run, [reads |-> "ok", pirFound |-> TRUE,
                             responderId |-> pirData.assignedResponderId,
                             requesterId |-> pirData.requesterId,
                             invoked |-> 0, send |-> "none"])
           ELSE Spread(run, [reads |-> "ok", pirFound |-> TRUE,
                             responderId |-> pirData.assignedResponderId,
                             requesterId |-> pirData.requesterId,
                             invoked |-> 1,
                             toEmail |-> questionRecipient(pirData),
                             send |-> sendNewEmail(sendFails)])
  /\ created' = Tail(created)
  /\ UNCHANGED <<pirVars, dirVars, questionDocs, answerDocs, attachmentDocs, blobs, uploads,
                 questions, answers, attachments, lastOp>>

\* one run of onNewAnswer, for the oldest pending onCreate event
onNewAnswer(readFails, sendFails) ==
  /\ created # <<>>
  /\ Head(created).kind = "answer"
  /\ LET ev == Head(created)
         pirData == pirs[ev.data.pirId]
         questionData == questionDocs[ev.data.questionId]
         run == [ran |-> TRUE, kind |-> "answer", id |-> ev.id,
                 pirId |-> ev.data.pirId, outcome |-> "null"]
     IN  lastCreate' =
           IF readFails
           THEN Spread(run, [reads |-> "failed", invoked |-> 0, send |-> "none"])
           ELSE IF pirData = Null
           THEN Spread(run, [reads |-> "ok", pirFound |-> FALSE,
                             invoked |-> 0, send |-> "none"])
           ELSE IF questionData = Null
           THEN Spread(run, [reads |-> "ok", pirFound |-> TRUE,
                             questionFound |-> FALSE,
                             invoked |-> 0, send |-> "none"])
           ELSE IF answerRecipient(pirData) = None
           THEN Spread(run, [reads |-> "ok", pirFound |-> TRUE,
                             questionFound |-> TRUE,
                             requesterId |-> pirData.requesterId,
                             invoked |-> 0, send |-> "none"])
           ELSE Spread(run, [reads |-> "ok", pirFound |-> TRUE,
                             questionFound |-> TRUE,
                             requesterId |-> pirData.requesterId,
                             invoked |-> 1,
                             toEmail |-> answerRecipient(pirData),
                             send |-> sendNewEmail(sendFails)])
  /\ created' = Tail(created)
  /\ UNCHANGED <<pirVars, dirVars, questionDocs, answerDocs, attachmentDocs, blobs, uploads,
                 questions, answers, attachments, lastOp>>

\* ------------------------------------------------------- specification
Next ==
  \/ \E c \in Clients, u \in UserIds : signIn(c, u) /\ UNCHANGED <<aggVars, dirVars>>
  \/ \E c \in Clients, id \in PIRIds : fetchPIRById(c, id) /\ UNCHANGED <<aggVars, dirVars>>
  \/ \E c \in Clients, id \in PIRIds, t \in Titles :
       createPIR(c, id, t) /\ UNCHANGED <<aggVars, dirVars>>
  \/ \E c \in Clients, s \in PIRStatus :
       clickStatusButton(c, s) /\ UNCHANGED <<aggVars, dirVars>>
  \/ \E c \in Clients : handleEdit(c) /\ UNCHANGED <<aggVars, dirVars>>
  \/ \E c \in Clients, t \in Titles : submitEdit(c, t) /\ UNCHANGED <<aggVars, dirVars>>
  \/ \E c \in Clients, r \in UserIds : assignResponder(c, r) /\ UNCHANGED <<aggVars, dirVars>>
  \/ \E lookupFails \in BOOLEAN, sendFails \in BOOLEAN :
       onPIRStatusChange(lookupFails, sendFails) /\ UNCHANGED <<aggVars, dirVars>>

Spec == Init /\ [][Next]_vars

\* ------------------------------- the handler over every onUpdate event
\* the ids an event's PIR may carry as requester, responder and reviewer
EventRequesters == {"r1", "a", NoDocUser}
EventResponders == {None, "r2", "a", NoDocUser}
EventReviewers == {None, "v1", NoDocUser}

\* displayName of a user id as the form stored it next to the id
NameOf(uid) == IF uid \in UserIds THEN users[uid].displayName ELSE None

\* change.after.data() of an event: a PIR document in the given status
EventData(status, requesterId, responderId, reviewerId) ==
  [NewPIRData(users["r1"], "t0", 1) EXCEPT
     !.status = status,
     !.requesterId = requesterId,
     !.requesterName = NameOf(requesterId),
     !.assignedResponderId = responderId,
     !.assignedResponderName = NameOf(responderId),
     !.reviewerId = reviewerId,
     !.reviewerName = NameOf(reviewerId),
     !.updatedAt = 2]

\* the store after one committed update of pirs/p1, its event still pending
InitNotify ==
  \E beforeStatus \in PIRStatus, afterStatus \in PIRStatus,
     requesterId \in EventRequesters, responderId \in EventResponders,
     reviewerId \in EventReviewers :
    LET afterData == EventData(afterStatus, requesterId, responderId, reviewerId)
        beforeData == [afterData EXCEPT !.status = beforeStatus, !.updatedAt = 1]
    IN  /\ pirs = [id \in PIRIds |-> afterData]
        /\ clock = 2
        /\ triggers = <<[pirId |-> "p1", before |-> beforeData, after |-> afterData]>>
        /\ currentUser = [c \in Clients |-> Null]
        /\ selectedPIR = [c \in Clients |-> Null]
        /\ route = [c \in Clients |-> "list"]
        /\ formData = [c \in Clients |-> Null]
        /\ lastCall = [op |-> "none"]
        /\ lastNotify = [ran |-> FALSE]
        /\ EmptyAggregate
        /\ InitialDirectories

NextNotify ==
  \E lookupFails \in BOOLEAN, sendFails \in BOOLEAN :
    onPIRStatusChange(lookupFails, sendFails) /\ UNCHANGED <<aggVars, dirVars>>

SpecNotify == InitNotify /\ [][NextNotify]_vars

\* the session that works on the questions and attachments: an admin, who
\* may edit every PIR
Editor == "c1"

\* the PIR the session starts with: none, or a Draft of r1 (with or without
\* a responder), or a Draft whose requester and responder have no user
\* document
InitialPIRs ==
  {Null,
   NewPIRData(users["r1"], "t0", 1),
   [NewPIRData(users["r1"], "t0", 1) EXCEPT
      !.assignedResponderId = "r2", !.assignedResponderName = "r2"],
   [NewPIRData(users["r1"], "t0", 1) EXCEPT
      !.requesterId = NoDocUser, !.requesterName = NoDocUser,
      !.assignedResponderId = NoDocUser, !.assignedResponderName = NoDocUser]}

\* the Editor on the detail page of the PIR
EditorOnDetail ==
  /\ clock = IF pirs["p1"] = Null THEN 0 ELSE 1
  /\ currentUser = [c \in Clients |-> IF c = Editor THEN users["a"] ELSE Null]
  /\ selectedPIR = [c \in Clients |-> IF c = Editor THEN getPIRById("p1") ELSE Null]
  /\ route = [c \in Clients |-> IF c = Editor THEN "detail" ELSE "list"]
  /\ formData = [c \in Clients |-> Null]
  /\ triggers = <<>>
  /\ lastCall = [op |-> "none"]
  /\ lastNotify = [ran |-> FALSE]
  /\ EmptyAggregate
  /\ InitialDirectories

\* --------------------------- the onCreate handlers over every new child
InitCreate ==
  /\ pirs \in [PIRIds -> InitialPIRs]
  /\ EditorOnDetail

NextCreate ==
  \/ createQuestion(Editor)
  \/ \E p \in PIRIds, q \in QuestionIds : createAnswer(Editor, p, q)
  \/ \E readFails, sendFails \in BOOLEAN : onNewQuestion(readFails, sendFails)
  \/ \E readFails, sendFails \in BOOLEAN : onNewAnswer(readFails, sendFails)

SpecCreate == InitCreate /\ [][NextCreate]_vars

\* ------------------------- questions and attachments of a PIR in Draft
\* a Draft of r1; the reads and sends of the handlers succeed
InitAggregate ==
  /\ pirs = [p \in PIRIds |-> NewPIRData(users["r1"], "t0", 1)]
  /\ EditorOnDetail

NextAggregate ==
  \/ createQuestion(Editor)
  \/ onNewQuestion(FALSE, FALSE)
  \/ \E blobFails, urlFails \in BOOLEAN : uploadAttachment(Editor, blobFails, urlFails, FALSE)
  \/ \E id \in AttachmentIds, storageFails \in BOOLEAN :
       deleteAttachment(Editor, id, storageFails)
  \/ \E p \in PIRIds, q \in QuestionIds :
       clock <= MaxRegistrations /\ addQuestionToPIR(p, q)
  \/ \E p \in PIRIds, t \in AttachmentIds :
       clock <= MaxRegistrations /\ addAttachmentToPIR(p, t)
  \/ onPIRStatusChange(FALSE, FALSE) /\ UNCHANGED <<aggVars, dirVars>>
  \/ fetchQuestionsByPIRId(Editor)
  \/ \E ids \in FetchInputs(Editor) : fetchAttachmentsByIds(Editor, ids)

SpecAggregate == InitAggregate /\ [][NextAggregate]_vars

\* ------------------------------------------------------------- the tags
\* the names typed for a tag, as sequences of characters
TagNames == {<<"A", "b">>, <<"a", "b">>, <<"a", "B">>, <<"a">>, <<"B">>}

\* the UTF-16 code of a character, the order of orderBy('name')
CharCode(ch) ==
  CASE ch = "A" -> 65 [] ch = "B" -> 66 [] ch = "a" -> 97 [] ch = "b" -> 98

\* a comparison that tells upper case from lower case
keepCase(str) == str

\* String.prototype.toLowerCase
toLowerCase(str) ==
  [i \in 1..Len(str) |-> CASE str[i] = "A" -> "a" [] str[i] = "B" -> "b"
                           [] OTHER -> str[i]]

\* String.prototype.includes
includes(str, part) ==
  \E i \in 0..(Len(str) - Len(part)) : SubSeq(str, i + 1, i + Len(part)) = part

RECURSIVE NameBefore(_, _)
NameBefore(x, y) ==
  IF x = <<>> THEN y # <<>>
  ELSE IF y = <<>> THEN FALSE
  ELSE IF x[1] = y[1] THEN NameBefore(Tail(x), Tail(y))
  ELSE CharCode(x[1]) < CharCode(y[1])

\* the order of the documents of a query ordered by name: by name, then
\* by document id
TagBefore(g, h) ==
  \/ NameBefore(tagDocs[g].name, tagDocs[h].name)
  \/ /\ tagDocs[g].name = tagDocs[h].name
     /\ \E i, j \in 1..Len(TagIdSeq) : i < j /\ TagIdSeq[i] = g /\ TagIdSeq[j] = h

RECURSIVE SortTags(_)
SortTags(S) ==
  IF S = {} THEN <<>>
  ELSE LET first == CHOOSE g \in S : \A h \in S \ {g} : TagBefore(g, h)
       IN  <<first>> \o SortTags(S \ {first})

\* getAllTags: every tag, orderBy('name', 'asc')
getAllTags == SortTags(Existing(tagDocs))

\* searchTagsByName: the tags whose lower-cased name includes the
\* lower-cased search term
searchTagsByName(searchTerm) ==
  SelectSeq(getAllTags,
            LAMBDA g : includes(toLowerCase(tagDocs[g].name), toLowerCase(searchTerm)))

\* createTag: existingTags.find(t => t.name.toLowerCase() ===
\* tag.name.toLowerCase()), None when there is none
exactMatch(name) ==
  LET found == SelectSeq(searchTagsByName(name),
                         LAMBDA g : toLowerCase(tagDocs[g].name) = toLowerCase(name))
  IN  IF found = <<>> THEN None ELSE found[1]

\* createTag of the slice around createTag of the repository
createTag(c, name) ==
  /\ exactMatch(name) # None \/ HasFreshId(TagIdSeq, tagDocs)
  /\ LET newTag == IF exactMatch(name) # None THEN exactMatch(name)
                   ELSE NextId(TagIdSeq, tagDocs)
     IN  /\ tagDocs' = IF exactMatch(name) # None THEN tagDocs
                       ELSE [tagDocs EXCEPT ![newTag] = [name |-> name]]
         /\ tags' = IF newTag \in Range(tags[c]) THEN tags
                    ELSE [tags EXCEPT ![c] = Append(@, newTag)]
         /\ lastOp' = [op |-> "createTag", name |-> name, id |-> newTag,
                       outcome |-> "ok"]
  /\ UNCHANGED <<pirVars, userDocs, auth, answerFetches, tagCalls, questionDocs, answerDocs, attachmentDocs, blobs,
                 uploads, questions, answers, attachments, created, lastCreate>>

\* fetchAllTags of the slice
fetchAllTags(c) ==
  /\ tags' = [tags EXCEPT ![c] = getAllTags]
  /\ lastOp' = [op |-> "fetchAllTags", outcome |-> "ok"]
  /\ UNCHANGED <<pirVars, tagDocs, userDocs, auth, answerFetches, tagCalls, questionDocs, answerDocs, attachmentDocs,
                 blobs, uploads, questions, answers, attachments, created, lastCreate>>

NextTags ==
  \/ \E c \in Clients, name \in TagNames : createTag(c, name)
  \/ \E c \in Clients : fetchAllTags(c)

SpecTags == Init /\ [][NextTags]_vars

\* ------------------------ two sessions that stay signed in on one PIR
\* the requester r1 on client c1 and the administrator on client c2,
\* after their signIn
InitSessions ==
  /\ pirs = [id \in PIRIds |-> Null]
  /\ clock = 0
  /\ currentUser = [c \in Clients |-> IF c = "c1" THEN users["r1"] ELSE users["a"]]
  /\ selectedPIR = [c \in Clients |-> Null]
  /\ route = [c \in Clients |-> "list"]
  /\ formData = [c \in Clients |-> Null]
  /\ triggers = <<>>
  /\ lastCall = [op |-> "none"]
  /\ lastNotify = [ran |-> FALSE]
  /\ EmptyAggregate
  /\ InitialDirectories

NextSessions ==
  \/ \E c \in Clients, id \in PIRIds : fetchPIRById(c, id) /\ UNCHANGED <<aggVars, dirVars>>
  \/ \E c \in Clients, id \in PIRIds, t \in Titles :
       createPIR(c, id, t) /\ UNCHANGED <<aggVars, dirVars>>
  \/ \E c \in Clients, s \in PIRStatus :
       clickStatusButton(c, s) /\ UNCHANGED <<aggVars, dirVars>>
  \/ \E c \in Clients : handleEdit(c) /\ UNCHANGED <<aggVars, dirVars>>
  \/ \E c \in Clients, t \in Titles : submitEdit(c, t) /\ UNCHANGED <<aggVars, dirVars>>
  \/ \E c \in Clients, r \in UserIds : assignResponder(c, r) /\ UNCHANGED <<aggVars, dirVars>>
  \/ onPIRStatusChange(FALSE, FALSE) /\ UNCHANGED <<aggVars, dirVars>>

SpecSessions == InitSessions /\ [][NextSessions]_vars

\* ------------- the two sessions, with the question form of the detail page
NextAuthoring ==
  \/ NextSessions
  \/ \E c \in Clients : createQuestion(c)
  \/ onNewQuestion(FALSE, FALSE)

SpecAuthoring == InitSessions /\ [][NextAuthoring]_vars

\* ------------------- one browser used by one user after the other
\* signOut: the session ends, the PIR slice keeps what it holds
signOut(c) ==
  /\ currentUser[c] # Null
  /\ currentUser' = [currentUser EXCEPT ![c] = Null]
  /\ route' = [route EXCEPT ![c] = "list"]
  /\ formData' = [formData EXCEPT ![c] = Null]
  /\ UNCHANGED <<pirs, clock, selectedPIR, triggers, lastCall, lastNotify>>

\* a call of handleStatusChange for a status, whether or not the page
\* renders a button for it; it may be the one write after the last click
callStatusChange(c, newStatus) ==
  /\ route[c] = "detail"
  /\ selectedPIR[c] # Null
  /\ currentUser[c] # Null
  /\ clock <= MaxClock
  /\ handleStatusChange(c, newStatus)

\* the users of the scenario: requester, administrator, responder, reviewer
ScenarioUsers == {"r1", "a", "r2", "v1"}

\* the requester r1 has created the Draft p1 and is on its detail page
InitScenario ==
  /\ pirs = [id \in PIRIds |-> NewPIRData(users["r1"], "t0", 1)]
  /\ clock = 1
  /\ currentUser = [c \in Clients |-> IF c = Editor THEN users["r1"] ELSE Null]
  /\ selectedPIR = [c \in Clients |-> IF c = Editor THEN getPIRById("p1") ELSE Null]
  /\ route = [c \in Clients |-> IF c = Editor THEN "detail" ELSE "list"]
  /\ formData = [c \in Clients |-> Null]
  /\ triggers = <<>>
  /\ lastCall = [op |-> "none"]
  /\ lastNotify = [ran |-> FALSE]
  /\ EmptyAggregate
  /\ InitialDirectories

NextScenario ==
  \/ \E u \in ScenarioUsers : signIn(Editor, u) /\ UNCHANGED <<aggVars, dirVars>>
  \/ signOut(Editor) /\ UNCHANGED <<aggVars, dirVars>>
  \/ \E id \in PIRIds : fetchPIRById(Editor, id) /\ UNCHANGED <<aggVars, dirVars>>
  \/ \E s \in PIRStatus : clickStatusButton(Editor, s) /\ UNCHANGED <<aggVars, dirVars>>
  \/ \E s \in {ACCEPTED, REJECTED} :
       callStatusChange(Editor, s) /\ UNCHANGED <<aggVars, dirVars>>
  \/ \E r \in UserIds : assignResponder(Editor, r) /\ UNCHANGED <<aggVars, dirVars>>
  \/ onPIRStatusChange(FALSE, FALSE) /\ UNCHANGED <<aggVars, dirVars>>

SpecScenario == InitScenario /\ [][NextScenario]_vars

\* ------------------------------------------- userSlice: the user documents
\* what the user operations leave alone
notUserVars == <<pirs, clock, selectedPIR, route, formData, triggers, lastCall,
                 lastNotify, aggVars, tagDocs, tags, answerFetches, tagCalls>>

\* the auth account of the uid exists: it has a document or a session
HasAccount(uid) ==
  uid \in UserIds \/ userDocs[uid] # Null \/ \E c \in Clients : auth[c].uid = uid

\* the auth listener: a signed-in Firebase user starts loadUserData
onAuthStateChanged(c, uid, signUpData) ==
  auth' = [auth EXCEPT ![c].uid = uid, ![c].signUp = signUpData, ![c].load = "get",
                       ![c].signedUp = Null]

\* signUp up to createUserWithEmailAndPassword: the account of the new uid
signUpCreateUser(c, uid, role) ==
  /\ auth[c].uid = None
  /\ ~HasAccount(uid)
  /\ onAuthStateChanged(c, uid, [id |-> uid, email |-> uid, displayName |-> uid,
                                 role |-> role])
  /\ UNCHANGED <<currentUser, userDocs, notUserVars>>

\* signUp from setDoc(doc(db, 'users', uid), userData) on
signUpSetDoc(c) ==
  /\ auth[c].signUp # Null
  /\ userDocs' = [userDocs EXCEPT ![auth[c].uid] = auth[c].signUp]
  /\ currentUser' = [currentUser EXCEPT ![c] = auth[c].signUp]
  /\ auth' = [auth EXCEPT ![c].signUp = Null, ![c].signedUp = auth[c].signUp,
                          ![c].isAuthenticated = TRUE]
  /\ UNCHANGED notUserVars

\* signIn: signInWithEmailAndPassword, the auth listener does the rest
signInWithEmailAndPassword(c, uid) ==
  /\ auth[c].uid = None
  /\ HasAccount(uid)
  /\ onAuthStateChanged(c, uid, Null)
  /\ UNCHANGED <<currentUser, userDocs, notUserVars>>

\* loadUserData up to getDoc: without a Firebase user the session is
\* cleared, an existing document becomes currentUser
loadUserDataGetDoc(c) ==
  /\ auth[c].load = "get"
  /\ IF auth[c].uid = None
     THEN /\ currentUser' = [currentUser EXCEPT ![c] = Null]
          /\ auth' = [auth EXCEPT ![c].load = "idle", ![c].isAuthenticated = FALSE]
     ELSE IF userDocs[auth[c].uid] # Null
     THEN /\ currentUser' = [currentUser EXCEPT ![c] = userDocs[auth[c].uid]]
          /\ auth' = [auth EXCEPT ![c].load = "idle", ![c].isAuthenticated = TRUE]
     ELSE /\ auth' = [auth EXCEPT ![c].load = "set"]
          /\ UNCHANGED currentUser
  /\ UNCHANGED <<userDocs, notUserVars>>

\* the document loadUserData writes for a user that has none
defaultUserData(uid) ==
  [id |-> uid, email |-> uid, displayName |-> uid, role |-> REQUESTER]

\* loadUserData from setDoc(userRef, defaultUserData) on
loadUserDataSetDoc(c) ==
  /\ auth[c].load = "set"
  /\ userDocs' = [userDocs EXCEPT ![auth[c].uid] = defaultUserData(auth[c].uid)]
  /\ currentUser' = [currentUser EXCEPT ![c] = defaultUserData(auth[c].uid)]
  /\ auth' = [auth EXCEPT ![c].load = "idle", ![c].isAuthenticated = TRUE]
  /\ UNCHANGED notUserVars

\* the updates a caller hands to updateUserProfile: a Partial<User>
UserUpdates == {[displayName |-> "n"], [role |-> ADMIN]}

\* updateUserProfile: updateDoc(userRef, updates), then the same updates
\* spread over currentUser; updateDoc of a missing document throws
updateUserProfile(c, updates) ==
  /\ currentUser[c] # Null
  /\ userDocs[currentUser[c].id] # Null
  /\ userDocs' = [userDocs EXCEPT ![currentUser[c].id] = updateDoc(@, updates)]
  /\ currentUser' = [currentUser EXCEPT ![c] = Spread(@, updates)]
  /\ UNCHANGED <<auth, notUserVars>>

NextUsers ==
  \/ \E c \in Clients, role \in UserRole : signUpCreateUser(c, NoDocUser, role)
  \/ \E c \in Clients : signUpSetDoc(c)
  \/ \E c \in Clients, uid \in UserIds \cup {NoDocUser} :
       signInWithEmailAndPassword(c, uid)
  \/ \E c \in Clients : loadUserDataGetDoc(c)
  \/ \E c \in Clients : loadUserDataSetDoc(c)
  \/ \E c \in Clients, updates \in UserUpdates : updateUserProfile(c, updates)

SpecUsers == Init /\ [][NextUsers]_vars

\* signUp and signIn with the auth listener, no profile update
NextSignUp ==
  \/ \E c \in Clients, role \in UserRole : signUpCreateUser(c, NoDocUser, role)
  \/ \E c \in Clients : signUpSetDoc(c)
  \/ \E c \in Clients, uid \in UserIds \cup {NoDocUser} :
       signInWithEmailAndPassword(c, uid)
  \/ \E c \in Clients : loadUserDataGetDoc(c)
  \/ \E c \in Clients : loadUserDataSetDoc(c)

SpecSignUp == Init /\ [][NextSignUp]_vars

\* -------------------- userSlice: the session flags of the client store
\* signOut of the slice: firebaseSignOut, then currentUser and
\* isAuthenticated are cleared
signOutSession(c) ==
  /\ auth[c].uid # None
  /\ auth[c].signUp = Null
  /\ auth[c].load = "idle"
  /\ currentUser' = [currentUser EXCEPT ![c] = Null]
  /\ auth' = [auth EXCEPT ![c].uid = None, ![c].signedUp = Null,
                          ![c].isAuthenticated = FALSE]
  /\ UNCHANGED <<userDocs, notUserVars>>

\* updateUserProfile up to its await: currentUser is read once, here
updateUserProfileStart(c, updates) ==
  /\ currentUser[c] # Null
  /\ auth[c].profile = Null
  /\ auth' = [auth EXCEPT ![c].profile = [user |-> currentUser[c], updates |-> updates]]
  /\ UNCHANGED <<currentUser, userDocs, notUserVars>>

\* updateUserProfile from the resolved updateDoc on: the user read at the
\* start, with the updates, becomes currentUser; a rejected updateDoc
\* only sets authError
updateUserProfileFinish(c) ==
  /\ auth[c].profile # Null
  /\ LET user == auth[c].profile.user
         updates == auth[c].profile.updates
     IN  IF userDocs[user.id] = Null
         THEN UNCHANGED <<userDocs, currentUser>>
         ELSE /\ userDocs' = [userDocs EXCEPT ![user.id] = updateDoc(@, updates)]
              /\ currentUser' = [currentUser EXCEPT ![c] = Spread(user, updates)]
  /\ auth' = [auth EXCEPT ![c].profile = Null]
  /\ UNCHANGED notUserVars

\* a reload of the page: the store starts from its initial state with the
\* persisted currentUser, and the auth listener is registered again
reload(c) ==
  /\ auth[c].signUp = Null
  /\ auth[c].load = "idle"
  /\ auth' = [auth EXCEPT ![c].isAuthenticated = FALSE, ![c].profile = Null,
                          ![c].load = "get"]
  /\ UNCHANGED <<currentUser, userDocs, notUserVars>>

NextAuthState ==
  \/ \E c \in Clients, uid \in {"r1", "a"} : signInWithEmailAndPassword(c, uid)
  \/ \E c \in Clients : loadUserDataGetDoc(c)
  \/ \E c \in Clients : signOutSession(c)
  \/ \E c \in Clients, updates \in {[displayName |-> "n"]} :
       updateUserProfileStart(c, updates)
  \/ \E c \in Clients : updateUserProfileFinish(c)
  \/ \E c \in Clients : reload(c)

SpecAuthState == Init /\ [][NextAuthState]_vars

\* ------------------------- the answers shown under the questions of a PIR
\* getAnswersByQuestionId: where('questionId', '==', questionId),
\* orderBy('createdAt', 'desc')
getAnswersByQuestionId(questionId) ==
  LET asc == SelectSeq(AnswerIdSeq,
                       LAMBDA n : answerDocs[n] # Null
                                    /\ answerDocs[n].questionId = questionId)
  IN  [i \in 1..Len(asc) |-> asc[Len(asc) + 1 - i]]

\* the mount effect of a QuestionAnswerItem: fetchAnswersByQuestionId of
\* the slice up to its await
fetchAnswersByQuestionIdStart(c, questionId) ==
  /\ route[c] = "detail"
  /\ questionId \in Range(questions[c])
  /\ answerFetches[c][questionId].state = "none"
  /\ answerFetches' = [answerFetches EXCEPT ![c][questionId].state = "pending"]
  /\ UNCHANGED <<pirVars, aggVars, tagDocs, tags, userDocs, auth, tagCalls>>

\* fetchAnswersByQuestionId from the resolved query on: set({ answers })
\* puts the answers of this one question in the place of the list
fetchAnswersByQuestionIdFinish(c, questionId) ==
  /\ answerFetches[c][questionId].state = "pending"
  /\ answers' = [answers EXCEPT ![c] = getAnswersByQuestionId(questionId)]
  /\ answerFetches' = [answerFetches EXCEPT ![c][questionId] =
                         [state |-> "done", result |-> getAnswersByQuestionId(questionId)]]
  /\ UNCHANGED <<pirVars, tagDocs, tags, userDocs, auth, tagCalls, questionDocs,
                 answerDocs, attachmentDocs, blobs, uploads, questions, attachments,
                 created, lastOp, lastCreate>>

\* the Editor on the detail page of the Draft adds questions and answers
\* them, every item of the list fetches its answers, and files are
\* uploaded and deleted, each step of an upload resolving or not
NextDetail ==
  \/ createQuestion(Editor)
  \/ onNewQuestion(FALSE, FALSE)
  \/ \E q \in QuestionIds :
       /\ route[Editor] = "detail"
       /\ selectedPIR[Editor] # Null
       /\ q \in Range(questions[Editor])
       /\ createAnswer(Editor, selectedPIR[Editor].id, q)
  \/ onNewAnswer(FALSE, FALSE)
  \/ \E q \in QuestionIds : fetchAnswersByQuestionIdStart(Editor, q)
  \/ \E q \in QuestionIds : fetchAnswersByQuestionIdFinish(Editor, q)
  \/ \E blobFails, urlFails, addDocFails \in BOOLEAN :
       uploadAttachment(Editor, blobFails, urlFails, addDocFails)
  \/ \E id \in AttachmentIds, storageFails \in BOOLEAN :
       deleteAttachment(Editor, id, storageFails)

SpecDetail == InitAggregate /\ [][NextDetail]_vars

\* ------------------------------------ createTag calls of several clients
\* createTag up to the resolved searchTagsByName: the tag of that name, if
\* there is one now (an id is left for every call that is about to add)
createTagSearch(c, name) ==
  /\ IF tagCalls[c] = Null THEN TRUE ELSE tagCalls[c].id # None
  /\ LET adding == {d \in Clients : tagCalls[d] # Null /\ tagCalls[d].id = None
                                      /\ tagCalls[d].exactMatch = None}
     IN  \/ exactMatch(name) # None
         \/ Cardinality(Existing(tagDocs)) + Cardinality(adding) < Len(TagIdSeq)
  /\ tagCalls' = [tagCalls EXCEPT ![c] =
                    [name |-> name, exactMatch |-> exactMatch(name), id |-> None]]
  /\ UNCHANGED <<pirVars, aggVars, tagDocs, tags, userDocs, auth, answerFetches>>

\* createTag from there on: the tag found is returned, or addDoc stores a
\* new one; the slice appends the tag to its list unless it is in it
createTagAdd(c) ==
  /\ tagCalls[c] # Null
  /\ tagCalls[c].id = None
  /\ LET found == tagCalls[c].exactMatch
         name == tagCalls[c].name
         newTag == IF found # None THEN found ELSE NextId(TagIdSeq, tagDocs)
     IN  /\ tagDocs' = IF found # None THEN tagDocs
                       ELSE [tagDocs EXCEPT ![newTag] = [name |-> name]]
         /\ tags' = IF newTag \in Range(tags[c]) THEN tags
                    ELSE [tags EXCEPT ![c] = Append(@, newTag)]
         /\ tagCalls' = [tagCalls EXCEPT ![c].id = newTag]
         /\ lastOp' = [op |-> "createTag", name |-> name, id |-> newTag,
                       outcome |-> "ok"]
  /\ UNCHANGED <<pirVars, userDocs, auth, answerFetches, questionDocs, answerDocs,
                 attachmentDocs, blobs, uploads, questions, answers, attachments,
                 created, lastCreate>>

NextTagCalls ==
  \/ \E c \in Clients, name \in {<<"A", "b">>, <<"a", "b">>, <<"a">>} :
       createTagSearch(c, name)
  \/ \E c \in Clients : createTagAdd(c)

SpecTagCalls == Init /\ [][NextTagCalls]_vars

\* ------------------ the store operations called with any id, known or not
\* updatePIR of the store, called with an id and a new title
callUpdatePIR(c, id, title) ==
  /\ currentUser[c] # Null
  /\ clock < MaxClock
  /\ updatePIR(c, id, [title |-> title])
  /\ UNCHANGED <<currentUser, route, formData, lastNotify>>

\* updatePIRStatus of the store, called with an id and a status
callUpdatePIRStatus(c, id, status) ==
  /\ currentUser[c] # Null
  /\ clock < MaxClock
  /\ updatePIRStatus(c, id, status, EmptyObj)
  /\ UNCHANGED <<currentUser, route, formData, lastNotify>>

\* the statuses the calls ask for
CallStatuses == {REQUESTED, SUBMITTED}

\* the administrator signed in, nothing stored yet
InitCalls ==
  /\ pirs = [id \in PIRIds |-> Null]
  /\ EditorOnDetail

NextCalls ==
  \/ \E id \in PIRIds, t \in Titles :
       createPIR(Editor, id, t) /\ UNCHANGED <<aggVars, dirVars>>
  \/ \E id \in PIRIds, t \in Titles :
       callUpdatePIR(Editor, id, t) /\ UNCHANGED <<aggVars, dirVars>>
  \/ \E id \in PIRIds, s \in CallStatuses :
       callUpdatePIRStatus(Editor, id, s) /\ UNCHANGED <<aggVars, dirVars>>
  \/ onPIRStatusChange(FALSE, FALSE) /\ UNCHANGED <<aggVars, dirVars>>
  \/ \E blobFails, urlFails \in BOOLEAN : uploadAttachment(Editor, blobFails, urlFails, FALSE)
  \/ \E id \in AttachmentIds, storageFails \in BOOLEAN :
       deleteAttachment(Editor, id, storageFails)

SpecCalls == InitCalls /\ [][NextCalls]_vars

\* ------------- updatePIRStatus of the store called with any additionalData
\* the additionalData objects of the calls: each a Partial<PIR>
AdditionalDatas ==
  {EmptyObj,
   [reviewerId |-> "v1", reviewerName |-> "v1"],
   [status |-> DRAFT]}

\* updatePIRStatus of the store, called with a status and an additionalData
callUpdatePIRStatusWith(c, id, status, additionalData) ==
  /\ currentUser[c] # Null
  /\ clock < MaxClock
  /\ updatePIRStatus(c, id, status, additionalData)
  /\ UNCHANGED <<currentUser, route, formData, lastNotify>>

NextStatusData ==
  \/ \E id \in PIRIds, t \in Titles :
       createPIR(Editor, id, t) /\ UNCHANGED <<aggVars, dirVars>>
  \/ \E id \in PIRIds, s \in PIRStatus, additionalData \in AdditionalDatas :
       callUpdatePIRStatusWith(Editor, id, s, additionalData)
       /\ UNCHANGED <<aggVars, dirVars>>
  \/ onPIRStatusChange(FALSE, FALSE) /\ UNCHANGED <<aggVars, dirVars>>

SpecStatusData == InitCalls /\ [][NextStatusData]_vars


\* =================================================== lifecycle properties
\* the transition table of the lifecycle and its permitted actors
TransitionTable ==
  {<<DRAFT, REQUESTED>>, <<REQUESTED, SUBMITTED>>, <<SUBMITTED, REVIEWED>>,
   <<REVIEWED, ACCEPTED>>, <<REVIEWED, REJECTED>>}

PermittedActor(user, pir, to) ==
  \/ user.role = ADMIN
  \/ to = REQUESTED /\ user.id = pir.requesterId
  \/ to = SUBMITTED /\ user.id = pir.assignedResponderId
  \/ to = REVIEWED /\ user.role = REVIEWER
  \/ to \in {ACCEPTED, REJECTED} /\ user.id = pir.reviewerId

LifecycleTimestamps == {"submittedAt", "reviewedAt", "acceptedAt", "rejectedAt"}

TimestampOf(to) ==
  CASE to = SUBMITTED -> "submittedAt"
    [] to = REVIEWED -> "reviewedAt"
    [] to = ACCEPTED -> "acceptedAt"
    [] to = REJECTED -> "rejectedAt"
    [] OTHER -> "none"

\* the last client operation was a status transition request on a stored PIR
TransitionRequested ==
  /\ lastCall.op = "updatePIRStatus"
  /\ lastCall.before # Null

ValidRequest ==
  /\ TransitionRequested
  /\ <<lastCall.before.status, lastCall.status>> \in TransitionTable

\* C1: a transition of the table requested by a permitted actor succeeds,
\* stores the new status, stamps exactly the lifecycle timestamp of the new
\* status with the time of the write, and keeps every other one
C1_ValidTransitionApplied ==
  (ValidRequest /\ PermittedActor(lastCall.user, lastCall.before, lastCall.status))
  => /\ lastCall.outcome = "ok"
     /\ lastCall.after.status = lastCall.status
     /\ \A f \in LifecycleTimestamps :
          IF f = TimestampOf(lastCall.status)
          THEN /\ lastCall.after[f] # Unset
               /\ lastCall.after[f] = lastCall.after.updatedAt
               /\ lastCall.after[f] > lastCall.before.updatedAt
          ELSE lastCall.after[f] = lastCall.before[f]

C1_Witness ==
  /\ ValidRequest
  /\ PermittedActor(lastCall.user, lastCall.before, lastCall.status)
  /\ lastCall.user.role = REVIEWER
  /\ lastCall.status = REJECTED
  /\ lastCall.outcome = "ok"
  /\ lastCall.after.rejectedAt # Unset
  /\ lastCall.after.submittedAt # Unset

\* C2: a transition that is not in the table fails with InvalidTransition and
\* leaves the stored PIR as it was
C2_InvalidTransitionRejected ==
  (TransitionRequested
   /\ <<lastCall.before.status, lastCall.status>> \notin TransitionTable)
  => /\ lastCall.outcome = "InvalidTransition"
     /\ lastCall.after = lastCall.before

\* C3: a transition of the table requested by an actor outside the permitted
\* set fails with PermissionDenied and leaves the stored PIR as it was
C3_UnpermittedActorRejected ==
  (ValidRequest /\ ~PermittedActor(lastCall.user, lastCall.before, lastCall.status))
  => /\ lastCall.outcome = "PermissionDenied"
     /\ lastCall.after = lastCall.before

\* C4: a transition to the status the PIR already has fails and writes
\* nothing, and an update that keeps the status sends no notification
C4_SelfTransitionRejected ==
  /\ (TransitionRequested /\ lastCall.status = lastCall.before.status)
       => (lastCall.outcome # "ok" /\ lastCall.after = lastCall.before)
  /\ (lastNotify.ran /\ lastNotify.beforeStatus = lastNotify.afterStatus)
       => lastNotify.invoked = 0

\* C5: once the stored status is Accepted or Rejected no step changes it
C5_TerminalStatusKept ==
  [][\A id \in PIRIds :
       (pirs[id] # Null /\ pirs[id].status \in {ACCEPTED, REJECTED})
       => pirs'[id].status = pirs[id].status]_vars

C7_OnlyStoredReviewerDecides ==
  (TransitionRequested
   /\ lastCall.before.status = REVIEWED
   /\ lastCall.status \in {ACCEPTED, REJECTED}
   /\ lastCall.user.role # ADMIN
   /\ lastCall.user.id # lastCall.before.reviewerId)
  => /\ lastCall.outcome # "ok"
     /\ lastCall.after.status = REVIEWED


\* C8: a requested transition succeeds exactly when the permission resolver,
\* asked about the acting user and the stored PIR, permits its action
C8_ResolverAgreesWithEngine ==
  TransitionRequested
  => (lastCall.outcome = "ok"
        <=> ButtonShown(lastCall.user, lastCall.before, lastCall.status))

\* the permitted-action set as the permission table states it
PermittedActions(user, pir) ==
  {a \in {"Edit", "Request", "Submit", "Review", "AcceptReject"} :
     \/ a = "Edit"
          /\ (user.role = ADMIN
                \/ (user.id = pir.requesterId /\ pir.status = DRAFT))
     \/ a = "Request" /\ pir.status = DRAFT
          /\ (user.role = ADMIN \/ user.id = pir.requesterId)
     \/ a = "Submit" /\ pir.status = REQUESTED
          /\ (user.role = ADMIN \/ user.id = pir.assignedResponderId)
     \/ a = "Review" /\ pir.status = SUBMITTED
          /\ (user.role = ADMIN \/ user.role = REVIEWER)
     \/ a = "AcceptReject" /\ pir.status = REVIEWED
          /\ (user.role = ADMIN \/ user.id = pir.reviewerId)}

TransitionActions == {"Request", "Submit", "Review", "AcceptReject"}

\* C9: for every user and every stored PIR (a client's copy is always an
\* earlier stored version) the resolved actions are those of the permission
\* table; at most one transition action is permitted, and none on an
\* Accepted or Rejected PIR
C9_ResolverMatchesTable ==
  \A id \in PIRIds :
    pirs[id] # Null =>
      \A u \in UserIds :
        LET resolved == resolveActions(users[u], pirs[id])
            offered == resolved \cap TransitionActions
        IN  /\ resolved = PermittedActions(users[u], pirs[id])
            /\ \A x, y \in offered : x = y
            /\ pirs[id].status \in {ACCEPTED, REJECTED} => offered = {}

C9_Witness ==
  \E id \in PIRIds :
    /\ pirs[id] # Null
    /\ pirs[id].status = REVIEWED
    /\ pirs[id].reviewerId = "v1"
    /\ pirs[id].requesterId = "a"
    /\ resolveActions(users["v1"], pirs[id]) = {"AcceptReject"}
    /\ resolveActions(users["v2"], pirs[id]) = {}
    /\ resolveActions(users["r1"], pirs[id]) = {}
    /\ resolveActions(users["a"], pirs[id]) = {"Edit", "AcceptReject"}

\* the per-status skip rules of the handler: no notification is configured
\* for Draft, and none is sent for Submitted without a resolvable reviewer
SkipRule(run) ==
  \/ run.afterStatus = DRAFT
  \/ run.afterStatus = SUBMITTED
       /\ (run.reviewerId = None \/ run.reviewerId \notin UserIds)

\* C10 as stated: every committed status change invokes the dispatcher
\* exactly once unless a skip rule applies, an update that keeps the status
\* never does
C10_DispatchedExactlyOnce ==
  lastNotify.ran
  => lastNotify.invoked =
       IF lastNotify.beforeStatus # lastNotify.afterStatus /\ ~SkipRule(lastNotify)
       THEN 1 ELSE 0

\* C10, amended: every committed status change invokes the dispatcher at
\* most once: exactly once when the recipient lookups succeed and no skip
\* rule applies, not at all when a lookup fails; an update that keeps the
\* status never does
C10_DispatchedAtMostOnce ==
  lastNotify.ran
  => /\ lastNotify.invoked \in {0, 1}
     /\ lastNotify.beforeStatus = lastNotify.afterStatus => lastNotify.invoked = 0
     /\ lastNotify.lookups = "failed" => lastNotify.invoked = 0
     /\ (lastNotify.beforeStatus # lastNotify.afterStatus /\ lastNotify.lookups = "ok")
          => lastNotify.invoked = IF SkipRule(lastNotify) THEN 0 ELSE 1

C10_Witness ==
  /\ lastNotify.ran
  /\ lastNotify.beforeStatus = REVIEWED
  /\ lastNotify.afterStatus = ACCEPTED
  /\ lastNotify.lookups = "ok"
  /\ lastNotify.invoked = 1
  /\ lastNotify.send = "sent"
  /\ lastCall.op = "updatePIRStatus"
  /\ lastCall.status = ACCEPTED
  /\ lastCall.outcome = "ok"

\* C11: a failure while notifying (a recipient lookup or the email send)
\* never propagates out of the notification handler, which completes
\* normally, and never fails, rolls back or retries the committed change
C11_FailureIsolated ==
  (lastNotify.ran /\ (lastNotify.lookups = "failed" \/ lastNotify.send = "thrown"))
  => lastNotify.outcome = "null"

\* the email of a user id when the id is set and its user document exists
ResolvableEmail(uid) ==
  IF uid # None /\ uid \in UserIds THEN {users[uid].email} ELSE {}

AdminEmailSet == {users[u].email : u \in {x \in UserIds : users[x].role = ADMIN}}

\* a run of the handler for a PIR that entered the status, lookups succeeding
StatusEntered(run, status) ==
  /\ run.ran
  /\ run.afterStatus = status
  /\ run.beforeStatus # status
  /\ run.lookups = "ok"

\* C12: when a PIR enters Submitted the recipients are exactly the reviewer
\* and the requester, and without a reviewer no notification is sent at all
C12_SubmittedRecipients ==
  StatusEntered(lastNotify, SUBMITTED)
  => IF ResolvableEmail(lastNotify.reviewerId) = {}
     THEN lastNotify.invoked = 0
     ELSE /\ lastNotify.invoked = 1
          /\ Range(lastNotify.toEmails) =
               ResolvableEmail(lastNotify.reviewerId)
                 \cup ResolvableEmail(lastNotify.requesterId)

\* C13: when a PIR enters Requested the recipients are exactly the assigned
\* responder, when one is assigned and resolvable, together with every Admin
\* user; without a responder they are exactly the Admin users
C13_RequestedRecipients ==
  StatusEntered(lastNotify, REQUESTED)
  => /\ lastNotify.invoked = 1
     /\ lastNotify.send \in {"sent", "thrown"}
     /\ Range(lastNotify.toEmails) =
          ResolvableEmail(lastNotify.responderId) \cup AdminEmailSet

C13_Witness ==
  /\ StatusEntered(lastNotify, REQUESTED)
  /\ lastNotify.responderId = "r2"
  /\ lastNotify.toEmails = <<"r2", "a">>
  /\ lastNotify.send = "sent"

\* C14: when a PIR enters Reviewed, Accepted or Rejected the recipients are
\* exactly those of the requester and the assigned responder that are
\* resolvable; a missing one is dropped without error, and when neither is
\* resolvable no email is sent
C14_DecisionRecipients ==
  \A status \in {REVIEWED, ACCEPTED, REJECTED} :
    StatusEntered(lastNotify, status)
    => /\ lastNotify.invoked = 1
       /\ lastNotify.outcome = "null"
       /\ Range(lastNotify.toEmails) =
            ResolvableEmail(lastNotify.requesterId)
              \cup ResolvableEmail(lastNotify.responderId)
       /\ IF Range(lastNotify.toEmails) = {}
          THEN lastNotify.send = "skipped"
          ELSE lastNotify.send \in {"sent", "thrown"}

C14_Witness ==
  /\ StatusEntered(lastNotify, ACCEPTED)
  /\ lastNotify.requesterId = NoDocUser
  /\ lastNotify.responderId = None
  /\ lastNotify.invoked = 1
  /\ lastNotify.send = "skipped"

\* the address a new question is to be announced to: the email of the
\* assigned responder of its PIR, None without a PIR, a responder or a user
\* document of the responder
ExpectedQuestionRecipient(pirId) ==
  LET pir == pirs[pirId]
  IN  IF pir = Null THEN None
      ELSE IF pir.assignedResponderId = None THEN None
      ELSE IF pir.assignedResponderId \notin UserIds THEN None
      ELSE users[pir.assignedResponderId].email

\* the address a new answer is to be announced to: the email of the
\* requester of its PIR, None without the PIR, the question or a user
\* document of the requester
ExpectedAnswerRecipient(pirId, questionId) ==
  LET pir == pirs[pirId]
  IN  IF pir = Null THEN None
      ELSE IF questionDocs[questionId] = Null THEN None
      ELSE IF pir.requesterId \notin UserIds THEN None
      ELSE users[pir.requesterId].email

\* the address the onCreate event of a question or an answer is to be
\* announced to, in the state its handler runs in
ExpectedRecipient(ev) ==
  IF ev.kind = "question" THEN ExpectedQuestionRecipient(ev.data.pirId)
  ELSE ExpectedAnswerRecipient(ev.data.pirId, ev.data.questionId)

\* a step of onNewQuestion or onNewAnswer: the only steps that take an
\* onCreate event off the queue
HandlerStep == Len(created') < Len(created)

\* C15 as stated: every created question triggers one notification to the
\* assigned responder of its PIR and none when there is no resolvable
\* responder, every created answer triggers one notification to the
\* requester of its PIR and none when the requester's email, the PIR or the
\* question is missing; and neither handler changes a PIR, a question or
\* an answer
C15_CreationNotifies ==
  [][HandlerStep
       => /\ lastCreate'.ran
          /\ lastCreate'.id = Head(created).id
          /\ IF ExpectedRecipient(Head(created)) = None
             THEN lastCreate'.invoked = 0
             ELSE /\ lastCreate'.invoked = 1
                  /\ lastCreate'.toEmail = ExpectedRecipient(Head(created))
          /\ UNCHANGED <<pirs, questionDocs, answerDocs>>]_vars

\* C15, amended: every created question or answer triggers at most one
\* notification: exactly one, to the assigned responder (question) or the
\* requester (answer), when the handler's reads succeed and that recipient
\* resolves, none when the recipient, the PIR or the question is missing,
\* and none when a read fails; a failed read or send is swallowed, and
\* neither handler changes a PIR, a question or an answer
C15_CreationNotifiesUnlessReadFails ==
  [][HandlerStep
       => /\ lastCreate'.ran
          /\ lastCreate'.id = Head(created).id
          /\ lastCreate'.outcome = "null"
          /\ lastCreate'.reads = "failed" => lastCreate'.invoked = 0
          /\ lastCreate'.reads = "ok"
               => IF ExpectedRecipient(Head(created)) = None
                  THEN lastCreate'.invoked = 0
                  ELSE /\ lastCreate'.invoked = 1
                       /\ lastCreate'.toEmail = ExpectedRecipient(Head(created))
          /\ UNCHANGED <<pirs, questionDocs, answerDocs>>]_vars

C15_Witness ==
  /\ lastCreate.ran
  /\ lastCreate.kind = "answer"
  /\ lastCreate.reads = "ok"
  /\ lastCreate.invoked = 1
  /\ lastCreate.toEmail = "r1"
  /\ lastCreate.send = "sent"
  /\ answerDocs["n1"] # Null
  /\ questionDocs[answerDocs["n1"].questionId] # Null
  /\ pirs["p1"].assignedResponderId = "r2"

\* how often an id occurs in a list
Occurrences(list, x) == Cardinality({i \in 1..Len(list) : list[i] = x})

\* a step that creates question q
QuestionCreated(q) == questionDocs[q] = Null /\ questionDocs'[q] # Null

\* a committed addQuestionToPIR
QuestionRegistered ==
  /\ lastOp'.op = "addQuestionToPIR"
  /\ lastOp'.outcome = "ok"
  /\ clock' # clock

\* C16: when a question has been created under PIR P its id is in
\* P.questionIds exactly once, and registering an id that is already there
\* leaves P.questionIds as it was
C16_QuestionRegisteredOnce ==
  [][/\ \A q \in QuestionIds :
          QuestionCreated(q)
          => Occurrences(pirs'[questionDocs'[q].pirId].questionIds, q) = 1
     /\ (QuestionRegistered
           /\ lastOp'.id \in Range(pirs[lastOp'.pirId].questionIds))
          => pirs'[lastOp'.pirId].questionIds = pirs[lastOp'.pirId].questionIds]_vars

\* the existing questions whose pirId is p, the existing attachments whose
\* parentId is p
QuestionsOf(p) == {q \in QuestionIds : questionDocs[q] # Null /\ questionDocs[q].pirId = p}
AttachmentsOf(p) ==
  {t \in AttachmentIds : attachmentDocs[t] # Null /\ attachmentDocs[t].parentId = p}

\* C17: after any sequence of completed question creations, attachment
\* uploads and attachment deletions, the questionIds of each PIR are the ids
\* of the existing questions of that PIR and its attachmentIds are the ids
\* of the existing attachments of that PIR (none missing, none dangling)
C17_AggregateConsistent ==
  \A p \in PIRIds :
    pirs[p] # Null
    => /\ Range(pirs[p].questionIds) = QuestionsOf(p)
       /\ Range(pirs[p].attachmentIds) = AttachmentsOf(p)

\* C18: for every PIR whose questionIds hold no dangling id and miss no
\* question of the PIR, the query by pirId and the batch fetch of the
\* questionIds yield the same set of question ids
C18_ResolutionsAgree ==
  \A p \in PIRIds :
    (pirs[p] # Null /\ Range(pirs[p].questionIds) = QuestionsOf(p))
    => LET fetched == getQuestionsByIds(pirs[p].questionIds)
       IN  /\ fetched.outcome = "ok"
           /\ Range(fetched.result) = Range(getQuestionsByPIRId(p))

\* the concatenation of the first k batches
RECURSIVE Flatten(_, _)
Flatten(batches, k) == IF k = 0 THEN <<>> ELSE Flatten(batches, k - 1) \o batches[k]

\* C19: a batch fetch of an id list of any length splits it into
\* consecutive batches of at most 10 ids that cover every id exactly once,
\* queries the batches one after the other, and returns every existing
\* entity whose id is in the list; an empty list gives an empty result
\* without a request to the store
C19_BatchFetchReturnsAll ==
  lastOp.op = "fetchAttachmentsByIds"
  => LET ids == lastOp.ids
         batches == Batches(ids)
     IN  /\ \A k \in DOMAIN batches : Len(batches[k]) \in 1..10
         /\ Flatten(batches, Len(batches)) = ids
         /\ lastOp.outcome = "ok"
         /\ lastOp.requests = Len(batches)
         /\ Len(ids) = 0 => lastOp.requests = 0
         /\ getAttachmentsByIds(ids).outcome = "ok"
         /\ Range(getAttachmentsByIds(ids).result)
              = Range(ids) \cap Existing(attachmentDocs)

\* a step of uploadAttachment: the other steps that keep an upload as the
\* last operation are the runs of the handlers
UploadStep ==
  /\ lastOp'.op = "uploadAttachment"
  /\ created' = created
  /\ triggers' = triggers

\* C20: an upload writes the blob first and the metadata record second:
\* a record is only created for a blob that is stored, and when the blob
\* write or the lookup of its download URL fails the upload fails, no
\* attachment record is created and the client's list is unchanged
C20_UploadBlobFirst ==
  [][UploadStep
       => /\ \A t \in AttachmentIds :
               (attachmentDocs[t] = Null /\ attachmentDocs'[t] # Null)
               => attachmentDocs'[t].downloadUrl \in blobs'
          /\ ~lastOp'.blobWritten => blobs' = blobs
          /\ (~lastOp'.blobWritten \/ ~lastOp'.urlResolved)
               => /\ lastOp'.outcome = "thrown"
                  /\ attachmentDocs' = attachmentDocs
                  /\ attachments' = attachments]_vars

C20_Witness ==
  /\ lastOp.op = "uploadAttachment"
  /\ ~lastOp.blobWritten
  /\ lastOp.outcome = "thrown"
  /\ lastOp.id = "t2"
  /\ attachmentDocs["t1"] # Null
  /\ attachmentDocs["t2"] = Null
  /\ attachments[Editor] = <<"t1">>
  /\ blobs = {"b1"}

\* a step of deleteAttachment: the other steps that keep a delete as the
\* last operation are the runs of the handlers
DeleteStep ==
  /\ lastOp'.op = "deleteAttachment"
  /\ created' = created
  /\ triggers' = triggers

\* C21: deleting an existing attachment deletes its metadata record and
\* reports success whether or not the blob delete succeeded: the record is
\* gone, the client's list no longer holds the id, and the blob is either
\* deleted or, when its delete failed, left behind
C21_DeleteSurvivesBlobFailure ==
  [][(DeleteStep /\ attachmentDocs[lastOp'.id] # Null)
       => /\ lastOp'.outcome = "ok"
          /\ attachmentDocs'[lastOp'.id] = Null
          /\ \A t \in AttachmentIds \ {lastOp'.id} : attachmentDocs'[t] = attachmentDocs[t]
          /\ lastOp'.id \notin Range(attachments'[Editor])
          /\ blobs' \in {blobs, blobs \ {attachmentDocs[lastOp'.id].downloadUrl}}]_vars

C21_Witness ==
  /\ lastOp.op = "deleteAttachment"
  /\ lastOp.id = "t1"
  /\ lastOp.outcome = "ok"
  /\ attachmentDocs["t1"] = Null
  /\ uploads = 1
  /\ blobs = {"b1"}
  /\ attachments[Editor] = <<>>

\* two names are equal ignoring case
RECURSIVE EqualIgnoringCase(_, _)
EqualIgnoringCase(x, y) ==
  IF x = <<>> \/ y = <<>> THEN x = y
  ELSE /\ \/ x[1] = y[1]
          \/ {x[1], y[1]} \in {{"A", "a"}, {"B", "b"}}
       /\ EqualIgnoringCase(Tail(x), Tail(y))

\* the existing tags whose name equals the name ignoring case
TagsNamed(name) ==
  {g \in TagIds : tagDocs[g] # Null /\ EqualIgnoringCase(tagDocs[g].name, name)}

\* C22: creating a tag whose name equals the name of an existing tag
\* ignoring case returns that tag and adds no record, creating one with a
\* new name adds exactly that record; so no two tags ever have names that
\* are equal ignoring case
C22_TagCreationIdempotent ==
  /\ [](\A g, h \in TagIds :
          (tagDocs[g] # Null /\ tagDocs[h] # Null /\ g # h)
          => ~EqualIgnoringCase(tagDocs[g].name, tagDocs[h].name))
  /\ [][lastOp'.op = "createTag"
         => IF TagsNamed(lastOp'.name) # {}
            THEN /\ lastOp'.id \in TagsNamed(lastOp'.name)
                 /\ tagDocs' = tagDocs
            ELSE /\ tagDocs[lastOp'.id] = Null
                 /\ tagDocs' = [tagDocs EXCEPT ![lastOp'.id] = [name |-> lastOp'.name]]]_vars

C22_Witness ==
  /\ lastOp.op = "createTag"
  /\ lastOp.name = <<"a", "B">>
  /\ lastOp.id = "g1"
  /\ tagDocs["g1"] = [name |-> <<"A", "b">>]
  /\ tagDocs["g2"] = [name |-> <<"a">>]
  /\ tagDocs["g3"] = Null
  /\ tags["c2"] = <<"g1">>

\* the lifecycle timestamps and the status each of them belongs to
StampOf ==
  [submittedAt |-> SUBMITTED, reviewedAt |-> REVIEWED,
   acceptedAt |-> ACCEPTED, rejectedAt |-> REJECTED]

\* C23: each lifecycle timestamp is recorded exactly once, at the first
\* entry into its status: it is set by the step that first enters the
\* status, and once set no later operation overwrites it
C23_StampsWrittenOnce ==
  [][\A id \in PIRIds :
       (pirs[id] # Null /\ pirs'[id] # Null)
       => \A f \in DOMAIN StampOf :
            /\ pirs[id][f] # Unset => pirs'[id][f] = pirs[id][f]
            /\ (pirs[id][f] = Unset /\ pirs'[id][f] # Unset)
                 => /\ pirs'[id].status = StampOf[f]
                    /\ pirs[id].status # StampOf[f]]_vars

\* C25: a PIR is created with status Draft and with the creating user as
\* its requester (id and name), and no later operation, edit or status
\* transition, changes requesterId or requesterName or removes the PIR
C25_RequesterFixedAtCreation ==
  [][\A id \in PIRIds :
       /\ (pirs[id] = Null /\ pirs'[id] # Null)
          => /\ lastCall'.op = "createPIR"
             /\ pirs'[id].status = DRAFT
             /\ pirs'[id].requesterId = lastCall'.user.id
             /\ pirs'[id].requesterName = lastCall'.user.displayName
       /\ pirs[id] # Null
          => /\ pirs'[id] # Null
             /\ pirs'[id].requesterId = pirs[id].requesterId
             /\ pirs'[id].requesterName = pirs[id].requesterName]_vars

C25_Witness ==
  /\ lastCall.op = "updatePIR"
  /\ lastCall.outcome = "ok"
  /\ lastCall.user.id = "a"
  /\ pirs["p1"] # Null
  /\ pirs["p1"].status = SUBMITTED
  /\ pirs["p1"].requesterId = "r1"
  /\ pirs["p1"].requesterName = users["r1"].displayName

\* the lifecycle timestamps of the PIR p1 that are set
StampsSet == {f \in DOMAIN StampOf : pirs["p1"][f] # Unset}

\* a call of the status change by the user on the PIR p1, which is in the
\* status and has the timestamps of the statuses it has been through
ScenarioStep(uid, from, stamps, to) ==
  /\ pirs["p1"].status = from
  /\ pirs["p1"].requesterId = "r1"
  /\ StampsSet = stamps
  /\ lastCall' # lastCall
  /\ lastCall'.op = "updatePIRStatus"
  /\ lastCall'.user.id = uid
  /\ lastCall'.status = to

\* the scenario: the Draft of requester r1 is moved to Requested by r1
\* (submittedAt still unset), responder r2 moves it to Submitted
\* (submittedAt set), reviewer v1 moves it to Reviewed (reviewedAt and
\* reviewerId v1 set) and to Accepted (acceptedAt set); a following attempt
\* by r2 to move it to Rejected fails with the failure and the PIR stays
\* Accepted with rejectedAt unset
ScenarioHolds(failure) ==
  /\ ScenarioStep("r1", DRAFT, {}, REQUESTED)
     => /\ lastCall'.outcome = "ok"
        /\ pirs'["p1"].status = REQUESTED
        /\ pirs'["p1"].submittedAt = Unset
  /\ (ScenarioStep("r2", REQUESTED, {}, SUBMITTED)
      /\ pirs["p1"].assignedResponderId = "r2")
     => /\ lastCall'.outcome = "ok"
        /\ pirs'["p1"].status = SUBMITTED
        /\ pirs'["p1"].submittedAt # Unset
  /\ ScenarioStep("v1", SUBMITTED, {"submittedAt"}, REVIEWED)
     => /\ lastCall'.outcome = "ok"
        /\ pirs'["p1"].status = REVIEWED
        /\ pirs'["p1"].reviewedAt # Unset
        /\ pirs'["p1"].reviewerId = "v1"
  /\ (ScenarioStep("v1", REVIEWED, {"submittedAt", "reviewedAt"}, ACCEPTED)
      /\ pirs["p1"].reviewerId = "v1")
     => /\ lastCall'.outcome = "ok"
        /\ pirs'["p1"].status = ACCEPTED
        /\ pirs'["p1"].acceptedAt # Unset
  /\ (ScenarioStep("r2", ACCEPTED, {"submittedAt", "reviewedAt", "acceptedAt"},
                   REJECTED)
      /\ pirs["p1"].assignedResponderId = "r2"
      /\ pirs["p1"].reviewerId = "v1")
     => /\ lastCall'.outcome = failure
        /\ pirs'["p1"] = pirs["p1"]

SignUpWrites(u) ==
  \E c \in Clients :
    /\ auth[c].uid = u
    /\ auth[c].signUp # Null
    /\ auth'[c].signUp = Null

\* C26: the role stored for a user never changes after signUp: no step
\* other than the write of signUp itself (in particular no
\* updateUserProfile and no loadUserData) changes the role of a stored
\* user document or removes the document
C26_RoleImmutable ==
  [][\A u \in DOMAIN userDocs :
       (userDocs[u] # Null /\ ~SignUpWrites(u))
       => /\ userDocs'[u] # Null
          /\ userDocs'[u].role = userDocs[u].role]_vars

\* C27: a question is created under a PIR only by an administrator, or by
\* the PIR's requester while the stored status of the PIR is Draft
C27_QuestionAuthorshipPermitted ==
  [][\A q \in QuestionIds :
       (questionDocs[q] = Null /\ questionDocs'[q] # Null)
       => LET createdBy == questionDocs'[q].createdBy
              pir == pirs[questionDocs'[q].pirId]
          IN  /\ pir # Null
              /\ \/ users[createdBy].role = ADMIN
                 \/ (createdBy = pir.requesterId /\ pir.status = DRAFT)]_vars

\* what the stores and the sessions hold of PIRs and attachments
StoredAndCached == <<pirs, clock, triggers, selectedPIR, attachmentDocs, blobs,
                     uploads, attachments>>

\* C28: an update or a status transition of a PIR id that does not exist,
\* and a delete of an attachment id that does not exist, fail with the
\* not-found error: no document is created or changed, no blob is deleted,
\* and the PIR and the attachment list of the session stay as they were
C28_MissingIdFailsBeforeWrite ==
  [][/\ (/\ lastCall' # lastCall
         /\ lastCall'.op \in {"updatePIR", "updatePIRStatus"}
         /\ pirs[lastCall'.pirId] = Null)
        => /\ lastCall'.outcome = "NotFound"
           /\ UNCHANGED StoredAndCached
     /\ (/\ lastOp' # lastOp
         /\ lastOp'.op = "deleteAttachment"
         /\ attachmentDocs[lastOp'.id] = Null)
        => /\ lastOp'.outcome = "thrown"
           /\ UNCHANGED StoredAndCached]_vars

C28_Witness ==
  /\ lastCall.op = "updatePIRStatus"
  /\ lastCall.pirId = "p1"
  /\ lastCall.status = SUBMITTED
  /\ lastCall.outcome = "NotFound"
  /\ lastOp.op = "deleteAttachment"
  /\ lastOp.id = "t1"
  /\ lastOp.outcome = "thrown"
  /\ pirs["p1"] = Null
  /\ attachmentDocs["t1"] = Null
  /\ selectedPIR[Editor] = Null
  /\ attachments[Editor] = <<>>
  /\ triggers = <<>>
  /\ blobs = {}
  /\ clock = 0

\* the place of a status in the lifecycle order
LifecycleRank ==
  [s \in PIRStatus |->
     CASE s = DRAFT -> 0
       [] s = REQUESTED -> 1
       [] s = SUBMITTED -> 2
       [] s = REVIEWED -> 3
       [] OTHER -> 4]

\* C29: with several sessions acting on the same PIR from their own
\* copies, the stored status never moves backward in the lifecycle order
\* Draft < Requested < Submitted < Reviewed < {Accepted, Rejected}
C29_StatusNeverMovesBackward ==
  [][\A id \in PIRIds :
       (pirs[id] # Null /\ pirs'[id] # Null)
       => LifecycleRank[pirs'[id].status] >= LifecycleRank[pirs[id].status]]_vars

\* the step saves the edit form of a session
EditSaved ==
  /\ lastCall' # lastCall
  /\ lastCall'.op = "updatePIR"
  /\ lastCall'.outcome = "ok"
  /\ route[lastCall'.client] = "edit"

\* C30: saving an edit of the descriptive fields of a PIR never changes
\* the stored status, questionIds or attachmentIds of the PIR, whatever
\* other sessions committed between the loading of the form and the save
C30_EditKeepsStatusAndChildren ==
  [][EditSaved
     => LET id == lastCall'.pirId
        IN  /\ pirs'[id].status = pirs[id].status
            /\ pirs'[id].questionIds = pirs[id].questionIds
            /\ pirs'[id].attachmentIds = pirs[id].attachmentIds]_vars

\* C31: whatever additionalData is passed to updatePIRStatus, after a
\* successful call the stored status is the status argument, the only
\* lifecycle timestamps the call changes are those of the stored status,
\* and the timestamp of the stored status is the time of the call
C31_AdditionalDataCannotOverride ==
  [][(/\ lastCall' # lastCall
      /\ lastCall'.op = "updatePIRStatus"
      /\ lastCall'.outcome = "ok")
     => LET id == lastCall'.pirId
        IN  /\ pirs'[id].status = lastCall'.status
            /\ \A f \in DOMAIN StampOf :
                 /\ pirs'[id][f] # pirs[id][f] => StampOf[f] = pirs'[id].status
                 /\ StampOf[f] = pirs'[id].status => pirs'[id][f] = clock']_vars

\* the step runs the status handler for an entry into Submitted of a PIR
\* that has not been reviewed before
SubmittedHandled ==
  /\ triggers # <<>>
  /\ triggers' = Tail(triggers)
  /\ Head(triggers).before.status # SUBMITTED
  /\ Head(triggers).after.status = SUBMITTED
  /\ Head(triggers).after.reviewedAt = Unset

\* C32: a PIR that follows the lifecycle has not been reviewed when it
\* enters Submitted; its reviewerId is then unset, and the handler run for
\* that entry sends no notification
C32_SubmittedEntrySilent ==
  [][/\ \A id \in PIRIds :
          (/\ pirs[id] # Null
           /\ pirs'[id] # Null
           /\ pirs[id].status # SUBMITTED
           /\ pirs'[id].status = SUBMITTED
           /\ pirs[id].reviewedAt = Unset)
          => pirs'[id].reviewerId = None
     /\ SubmittedHandled
        => /\ lastNotify'.reviewerId = None
           /\ lastNotify'.invoked = 0
           /\ lastNotify'.send = "none"]_vars

C32_Witness ==
  /\ lastNotify.ran
  /\ lastNotify.beforeStatus = REQUESTED
  /\ lastNotify.afterStatus = SUBMITTED
  /\ lastNotify.reviewerId = None
  /\ lastNotify.lookups = "ok"
  /\ lastNotify.invoked = 0
  /\ pirs["p1"].status = SUBMITTED
  /\ pirs["p1"].reviewedAt = Unset

\* C33: in every reachable state a PIR never has both acceptedAt and
\* rejectedAt set, acceptedAt is set only if the stored status is Accepted
\* and rejectedAt only if it is Rejected
C33_DecisionStampsExclusive ==
  \A id \in PIRIds :
    pirs[id] # Null
    => /\ ~(pirs[id].acceptedAt # Unset /\ pirs[id].rejectedAt # Unset)
       /\ pirs[id].acceptedAt # Unset => pirs[id].status = ACCEPTED
       /\ pirs[id].rejectedAt # Unset => pirs[id].status = REJECTED

\* C34: once signUp has completed in a session, the stored user document
\* carries the role passed to signUp, however the steps of signUp and of
\* the auth listener's loadUserData were interleaved
C34_SignUpRoleStored ==
  \A c \in Clients :
    auth[c].signedUp # Null
    => /\ userDocs[auth[c].uid] # Null
       /\ userDocs[auth[c].uid].role = auth[c].signedUp.role

\* C35: in every reachable state of the client store isAuthenticated is
\* true exactly when currentUser is not null
C35_AuthenticatedIffUser ==
  \A c \in Clients : auth[c].isAuthenticated <=> currentUser[c] # Null

\* C36: when a PIR with several questions is displayed and the answer
\* fetch of every question has completed with the answers now stored, the
\* answers shown under each question are exactly the stored answers of
\* that question
StoredFor(q) ==
  {n \in AnswerIds : answerDocs[n] # Null /\ answerDocs[n].questionId = q}

ShownFor(c, q) ==
  {n \in Range(answers[c]) : answerDocs[n] # Null /\ answerDocs[n].questionId = q}

EveryFetchCompleted(c) ==
  \A q \in Range(questions[c]) :
    /\ answerFetches[c][q].state = "done"
    /\ Range(answerFetches[c][q].result) = StoredFor(q)

C36_AnswersShownPerQuestion ==
  \A c \in Clients :
    (route[c] = "detail" /\ Len(questions[c]) >= 2 /\ EveryFetchCompleted(c))
      => \A q \in Range(questions[c]) : ShownFor(c, q) = StoredFor(q)

\* C37: when two clients have created tags with names equal ignoring
\* case, the tag collection holds at most one tag of that name and both
\* calls returned the same tag id
LowerCased(name) ==
  [i \in 1..Len(name) |-> IF name[i] = "A" THEN "a"
                          ELSE IF name[i] = "B" THEN "b" ELSE name[i]]

C37_ConcurrentCreateTagOneTag ==
  \A c, d \in Clients :
    (/\ c # d
     /\ tagCalls[c] # Null /\ tagCalls[c].id # None
     /\ tagCalls[d] # Null /\ tagCalls[d].id # None
     /\ LowerCased(tagCalls[c].name) = LowerCased(tagCalls[d].name))
      => /\ tagCalls[c].id = tagCalls[d].id
         /\ Cardinality({g \in Existing(tagDocs) :
                           LowerCased(tagDocs[g].name) = LowerCased(tagCalls[c].name)}) <= 1

\* C38: when an attachment upload has finished, with success or with
\* failure, every blob it wrote to the blob store is referenced by an
\* attachment metadata record
ReferencedBlobs(docs) == {docs[t].downloadUrl : t \in {i \in DOMAIN docs : docs[i] # Null}}

C38_UploadLeavesNoUnreferencedBlob ==
  [][lastOp'.op = "uploadAttachment"
       => (blobs' \ blobs) \subseteq ReferencedBlobs(attachmentDocs')]_vars
====
